---- MODULE Spec2Model ----
(***************************************************************************)
(* A model of miniapm: the error store (grouping by fingerprint and        *)
(* message similarity), the OTLP span writer with its classifier and its   *)
(* exception extraction, the batch endpoints, the retention job and the    *)
(* periodic tasks, the project registry with the middleware of /ingest,    *)
(* the connection pool as ingestion uses it, calls of insert interleaved   *)
(* statement by statement, the hourly and daily rollups, and the read side *)
(* (trace depths, N+1 detection, latency and route percentiles).           *)
(* Tables are sets of rows; every SQL statement is one atomic step of the  *)
(* store, and a statement may fail (SQLITE_BUSY, pool time-out).           *)
(***************************************************************************)
EXTENDS Integers, Sequences, FiniteSets, TLC

VARIABLES
    now,            \* Utc::now(), in ticks (the smallest unit of the clock)
    errors,         \* table errors
    occurrences,    \* table error_occurrences
    spans,          \* table spans
    rollups_hourly, \* table rollups_hourly
    deploys,        \* table deploys
    gone,           \* history: per error id, occurrences purged or never appended
    latest,         \* history: per span key, the row most recently written
    last,           \* what the latest retention run did and returned
    ebatch,         \* the ingest_errors_batch request in progress
    inflight,       \* the ingest_spans requests in progress, per worker
    projects,       \* table projects
    api_keys,       \* table api_keys (the keys of the time before projects)
    env,            \* the environment of the server process
    answer,         \* the latest response of the middleware or of a call
    input,          \* what the call under study is applied to
    jobs,           \* the periodic tasks spawned by jobs::start
    pool,           \* the connections of the r2d2 pool and who holds them
    racing,         \* calls of insert in progress, statement by statement
    requests,       \* table requests
    rollups_daily   \* table rollups_daily

\* The tables and requests of the ingestion engine.
store == <<now, errors, occurrences, spans, rollups_hourly, deploys, gone, latest,
           last, ebatch, inflight>>

\* The project registry and the process around it.
\* The pool, calls seen statement by statement, and the tables of the rollups.
aside == <<pool, racing, requests, rollups_daily>>

rest == <<projects, api_keys, env, answer, input, jobs, aside>>

vars == <<store, rest>>

(***************************************************************************)
(* Bounds of the model.                                                    *)
(***************************************************************************)
MsPerSec == 2          \* values of the millisecond field of a timestamp
SubPerMs == 2          \* values of the sub-millisecond field of a timestamp
MaxNow == 9            \* the clock stops here
MaxGroups == 2         \* rows of errors
MaxOccurrences == 2    \* rows of error_occurrences
MaxCount == 2          \* largest occurrence_count
MaxBatch == 2          \* items of one batch request
MaxRows == 1           \* rows of rollups_hourly, and of deploys
MaxProjects == 2       \* rows of projects
MaxProjectId == 3      \* largest id of a project
MaxSame == 6           \* spans of a trace with one SQL pattern
MaxSql == 3            \* characters of an SQL text
MaxValues == 100       \* durations of one latency query
PerMs == 2             \* values of a duration within one millisecond
MaxTries == 2          \* times a client sends one error: once, then retries
PartsPerHour == 2      \* ticks of the clock in an hour, where hours are told apart
HoursPerDay == 2       \* hours of a day, where days are told apart
MaxRequests == 2       \* rows of requests
MaxRouteSpans == 3     \* rows of spans under one routes query

NULL == "NULL"
None == <<>>

Max(S) == CHOOSE m \in S : \A x \in S : x <= m

\* SQLite gives a new row of an INTEGER PRIMARY KEY table the largest rowid + 1.
NewRowId(table) == IF table = {} THEN 1 ELSE Max({r.id : r \in table}) + 1

(***************************************************************************)
(* Timestamps as text.  A text is a sequence of character codes, except    *)
(* that its first element stands for the fixed-width prefix                *)
(* "YYYY-MM-DDTHH:MM:SS", which orders as the number of seconds does.  The *)
(* three millisecond digits are one digit here, and so are the digits      *)
(* below the millisecond.                                                  *)
(***************************************************************************)
Code == [space |-> 32, plus |-> 43, minus |-> 45, dot |-> 46, zero |-> 48, tee |-> 84, zed |-> 90]

SecOf(t) == t \div (MsPerSec * SubPerMs)
MsOf(t) == (t \div SubPerMs) % MsPerSec
SubOf(t) == t % SubPerMs

\* DateTime::to_rfc3339(): no fraction when it is zero, else 3, 6 or 9 digits.
Rfc3339Text(t) ==
    <<SecOf(t)>> \o
    (IF MsOf(t) = 0 /\ SubOf(t) = 0 THEN <<>>
     ELSE IF SubOf(t) = 0 THEN <<Code.dot, Code.zero + MsOf(t)>>
     ELSE <<Code.dot, Code.zero + MsOf(t), Code.zero + SubOf(t)>>) \o
    <<Code.plus>>

\* format("%Y-%m-%dT%H:%M:%S%.3fZ"): always three digits, truncated.
HappenedAtText(t) == <<SecOf(t), Code.dot, Code.zero + MsOf(t), Code.zed>>

\* The instant a timestamp text denotes, in ticks.
InstantOf(text) ==
    (text[1] * MsPerSec
      + (IF Len(text) >= 3 /\ text[2] = Code.dot THEN text[3] - Code.zero ELSE 0)) * SubPerMs
    + (IF Len(text) >= 4 /\ text[2] = Code.dot /\ text[4] \notin {Code.plus, Code.zed}
       THEN text[4] - Code.zero ELSE 0)

\* a < b for TEXT columns: SQLite's BINARY collation compares byte by byte.
RECURSIVE TextLessFrom(_, _, _)
TextLessFrom(a, b, i) ==
    IF i > Len(a) THEN i <= Len(b)
    ELSE IF i > Len(b) THEN FALSE
    ELSE IF a[i] # b[i] THEN a[i] < b[i]
    ELSE TextLessFrom(a, b, i + 1)

TextLess(a, b) == TextLessFrom(a, b, 1)

(***************************************************************************)
(* Error fingerprinting and message similarity (models/error.rs).          *)
(***************************************************************************)
\* A backtrace frame: its "file:line" text, whether ":in `method'" follows it,
\* whether it contains one of the skip patterns, whether it is blank.
Frame(path, method, library, blank) ==
    [path |-> path, method |-> method, library |-> library, blank |-> blank]

\* The frame's text up to the last ":in ".
StripMethod(frame) == frame.path

RECURSIVE FirstAppFrame(_, _)
FirstAppFrame(backtrace, i) ==
    IF i > Len(backtrace) THEN 0
    ELSE IF ~backtrace[i].library /\ ~backtrace[i].blank THEN i
    ELSE FirstAppFrame(backtrace, i + 1)

\* Some(location) is <<location>>, None is <<>>.
extract_error_location(backtrace) ==
    LET i == FirstAppFrame(backtrace, 1)
    IN  IF i # 0 THEN <<StripMethod(backtrace[i])>>
        ELSE IF backtrace # <<>> THEN <<StripMethod(backtrace[1])>>
        ELSE None

generate_location_fingerprint(exception_class, backtrace) ==
    LET location == extract_error_location(backtrace)
    IN  exception_class \o ":" \o (IF location = None THEN "" ELSE location[1])

\* to_lowercase() on the words the messages of the model use.
Lower(w) == CASE w = "X" -> "x" [] w = "Y" -> "y" [] OTHER -> w

\* A message is its sequence of pieces between non-alphanumeric characters
\* (a piece is "" where two separators meet).
WordSet(message) == {Lower(message[i]) : i \in 1..Len(message)} \ {""}

\* text_similarity(a, b) >= SIMILARITY_THRESHOLD, the threshold being 0.5:
\* |A \cap B| / |A \cup B| >= 1/2.
Similar(a, b) ==
    LET A == WordSet(a)
        B == WordSet(b)
    IN  IF A = {} /\ B = {} THEN TRUE
        ELSE IF A = {} \/ B = {} THEN FALSE
        ELSE 2 * Cardinality(A \cap B) >= Cardinality(A \cup B)

(***************************************************************************)
(* The error store: insert (models/error.rs).                              *)
(***************************************************************************)
Statements == {"pool", "exact", "similar", "update", "create", "occurrence"}
Faults == {"none"} \cup Statements    \* the statement of a call that fails

IncomingError(class, message, backtrace, fingerprint, request_id, timestamp) ==
    [exception_class |-> class, message |-> message, backtrace |-> backtrace,
     fingerprint |-> fingerprint, request_id |-> request_id, timestamp |-> timestamp]

\* ((?2 IS NULL AND project_id IS NULL) OR project_id = ?2)
ProjectMatch(row, project_id) ==
    \/ project_id = NULL /\ row.project_id = NULL
    \/ project_id # NULL /\ row.project_id # NULL /\ row.project_id = project_id

\* UNIQUE(project_id, fingerprint): SQLite counts NULLs as distinct, so the
\* constraint binds only rows whose project_id is not NULL.
UniqueViolation(table, project_id, fingerprint) ==
    /\ project_id # NULL
    /\ \E g \in table : g.project_id = project_id /\ g.fingerprint = fingerprint

\* let timestamp = error.timestamp.as_ref().unwrap_or(&now);
TimestampOf(error, t) ==
    IF error.timestamp = None THEN Rfc3339Text(t) ELSE error.timestamp[1]

\* SELECT id FROM errors WHERE fingerprint = ?1 AND <project>; a failed query is
\* turned into None by .ok().  Without ORDER BY any matching row may come first.
ExactMatches(table, error, project_id, fault) ==
    IF fault = "exact" THEN {}
    ELSE {g.id : g \in {g \in table : g.fingerprint = error.fingerprint
                                       /\ ProjectMatch(g, project_id)}}

\* The ids find_similar_error may return: a candidate of the same location
\* fingerprint and project whose message is similar enough.
find_similar_error(table, project_id, location_fingerprint, message) ==
    {g.id : g \in {g \in table : /\ g.fingerprint = location_fingerprint
                                  /\ ProjectMatch(g, project_id)
                                  /\ Similar(message, g.message)}}

\* A variant that sets last_seen_at and leaves the count.
\* A variant that reopens the group it counts up.
UpdateSeenReopen(table, id, timestamp) ==
    {IF g.id = id
     THEN [g EXCEPT !.last_seen_at = timestamp, !.occurrence_count = @ + 1,
                    !.status = "open"]
     ELSE g : g \in table}

UpdateSeenOnly(table, id, timestamp) ==
    {IF g.id = id THEN [g EXCEPT !.last_seen_at = timestamp] ELSE g : g \in table}

\* UPDATE errors SET last_seen_at = ?1, occurrence_count = occurrence_count + 1 WHERE id = ?2
UpdateSeen(table, id, timestamp) ==
    {IF g.id = id
     THEN [g EXCEPT !.last_seen_at = timestamp, !.occurrence_count = @ + 1]
     ELSE g : g \in table}

\* INSERT INTO errors (...) VALUES (?1, ?2, ?3, ?4, ?5, ?6, 1, 'open')
NewGroup(id, project_id, location_fingerprint, error, timestamp) ==
    [id |-> id, project_id |-> project_id, fingerprint |-> location_fingerprint,
     exception_class |-> error.exception_class, message |-> error.message,
     first_seen_at |-> timestamp, last_seen_at |-> timestamp,
     occurrence_count |-> 1, status |-> "open"]

\* A variant that links the occurrence to the newest group.
OccurrenceRowNewest(id, error_id, error, timestamp) ==
    [id |-> id, error_id |-> error_id + 1, request_id |-> error.request_id,
     happened_at |-> timestamp]

\* INSERT INTO error_occurrences (error_id, request_id, ..., happened_at, ...)
OccurrenceRow(id, error_id, error, timestamp) ==
    [id |-> id, error_id |-> error_id, request_id |-> error.request_id,
     happened_at |-> timestamp]

Db(e, o) == [errors |-> e, occurrences |-> o]
\* What a call leaves and returns: the store, Ok/Err, the id returned, the branch
\* taken, and the group row it has written (0 when none).
Outcome(db, ok, id, path, written) ==
    [db |-> db, ok |-> ok, id |-> id, path |-> path, written |-> written]

\* The tail of insert: the occurrence row, then Ok(error_id).
AppendOccurrence(db, error_id, error, timestamp, fault, path) ==
    IF fault = "occurrence" THEN Outcome(db, FALSE, 0, path, error_id)
    ELSE Outcome(
            Db(db.errors,
               db.occurrences \cup
                 {OccurrenceRow(NewRowId(db.occurrences), error_id, error, timestamp)}),
            TRUE, error_id, path, error_id)

\* insert(pool, error, project_id) at time t: the set of its possible outcomes,
\* each the store it leaves and what it returns (ok, id), with the path taken.
InsertOutcomes(db, error, project_id, t, fault) ==
    LET timestamp == TimestampOf(error, t)
        location_fingerprint ==
            generate_location_fingerprint(error.exception_class, error.backtrace)
        existing == ExactMatches(db.errors, error, project_id, fault)
        similar_error ==
            find_similar_error(db.errors, project_id, location_fingerprint, error.message)
        Merge(id, path) ==
            IF fault = "update" THEN Outcome(db, FALSE, 0, path, 0)
            ELSE AppendOccurrence(Db(UpdateSeen(db.errors, id, timestamp), db.occurrences),
                                  id, error, timestamp, fault, path)
    IN  IF fault = "pool" THEN {Outcome(db, FALSE, 0, "none", 0)}
        ELSE IF existing # {} THEN {Merge(id, "exact") : id \in existing}
        ELSE IF fault = "similar" THEN {Outcome(db, FALSE, 0, "none", 0)}
        ELSE IF similar_error # {} THEN {Merge(id, "similar") : id \in similar_error}
        ELSE IF fault = "create"
                \/ UniqueViolation(db.errors, project_id, location_fingerprint)
             THEN {Outcome(db, FALSE, 0, "new", 0)}
        ELSE LET id == NewRowId(db.errors)
             IN  {AppendOccurrence(
                     Db(db.errors \cup
                          {NewGroup(id, project_id, location_fingerprint, error, timestamp)},
                        db.occurrences),
                     id, error, timestamp, fault, "new")}

(***************************************************************************)
(* Inputs of the error endpoints.                                          *)
(***************************************************************************)
Projects == {NULL, "p1"}

LibFrame == Frame("/gems/rack-2.0/handler.rb:10", TRUE, TRUE, FALSE)
AppFrameA == Frame("app/a.rb:1", TRUE, FALSE, FALSE)
AppFrameB == Frame("app/b.rb:2", FALSE, FALSE, FALSE)

MessageXY == <<"x", "y">>
MessageXYZ == <<"X", "", "y", "z">>
MessageW == <<"w">>

\* A timestamp a client sends, lying in the past.
PastTimestamp == <<Rfc3339Text(0)>>

\* Reports of the exception class E: their fingerprint, backtrace, message and
\* timestamp.  The first three come from app/a.rb:1; the fourth names, as its
\* fingerprint, the location fingerprint of the first three.
ErrorInputs ==
    {IncomingError("E", MessageXY, <<LibFrame, AppFrameA>>, "f1", None, None),
     IncomingError("E", MessageXYZ, <<LibFrame, AppFrameA>>, "f2", None, PastTimestamp),
     IncomingError("E", MessageW, <<LibFrame, AppFrameA>>, "f3", None, None),
     IncomingError("E", MessageW, <<AppFrameB>>, "E:app/a.rb:1", None, None)}

(***************************************************************************)
(* The state after start-up, at time t: an empty store, nothing in flight. *)
(***************************************************************************)
NoCall == [op |-> "none"]
IdleBatch == [state |-> "idle"]
Idle == [state |-> "idle"]
Workers == {"w1", "w2"}    \* requests to POST /ingest/v1/traces served at once
Callers == {"c1", "c2"}    \* calls of insert running at once
NotCalling == [at |-> "idle"]
\* A worker that holds no connection of the pool and waits for none.
Released == [held |-> 0, at |-> "idle"]

\* The tasks of jobs::start.  Each owns an interval whose first tick completes
\* at once; `pending`: a tick of the interval is there to be taken.  `last` is
\* how the latest run of the work ended ("err": the error was logged), and
\* `again` records that the work ran on a tick that followed a failed one.
Jobs == {"sessions", "hourly", "daily", "retention"}
Spawned == [pending |-> TRUE, alive |-> TRUE, last |-> "none", again |-> FALSE]

\* A process started with neither ENABLE_PROJECTS nor MINI_APM_API_KEY set.
BareEnv == [ENABLE_PROJECTS |-> None, MINI_APM_API_KEY |-> None]

\* An empty project registry in the environment e; nothing has been answered.
RegistryAt(e) ==
    /\ projects = {}
    /\ api_keys = {}
    /\ env = e
    /\ answer = NoCall
    /\ jobs = [j \in Jobs |-> Spawned]
    /\ pool = [of |-> [w \in Workers |-> Released], others |-> 0]
    /\ racing = [c \in Callers |-> NotCalling]
    /\ requests = {}
    /\ rollups_daily = {}

InitIn(t, e) ==
    /\ RegistryAt(e)
    /\ now = t
    /\ errors = {}
    /\ occurrences = {}
    /\ spans = {}
    /\ rollups_hourly = {}
    /\ deploys = {}
    /\ gone = <<>>
    /\ latest = <<>>
    /\ last = NoCall
    /\ ebatch = IdleBatch
    /\ inflight = [w \in Workers |-> Idle]

InitAt(t) == InitIn(t, BareEnv) /\ input = None

\* The state in which a call is studied on one of the given inputs.
InitOn(inputs) == InitIn(MaxNow, BareEnv) /\ input \in inputs

\* The size of the model: no table and no counter grows past its bound.
WithinBounds(db) ==
    /\ Cardinality(db.errors) <= MaxGroups
    /\ Cardinality(db.occurrences) <= MaxOccurrences
    /\ \A g \in db.errors : g.occurrence_count <= MaxCount

\* History: an occurrence counted by a group whose row was never appended.
GoneAfter(out) ==
    [id \in {g.id : g \in out.db.errors} |->
        (IF id \in DOMAIN gone THEN gone[id] ELSE 0)
        + (IF ~out.ok /\ out.written = id THEN 1 ELSE 0)]

\* POST /ingest/errors: ingest_errors, 202 when insert returns Ok, else 500.
ingest_errors(error, project_id, fault) ==
    \E out \in InsertOutcomes(Db(errors, occurrences), error, project_id, now, fault) :
        /\ WithinBounds(out.db)
        /\ errors' = out.db.errors
        /\ occurrences' = out.db.occurrences
        /\ gone' = GoneAfter(out)
        /\ UNCHANGED <<rest, now, spans, rollups_hourly, deploys, latest, last, ebatch, inflight>>

\* Requests to POST /ingest/errors.
IngestErrors(inputs, tenants, faults) ==
    \E error \in inputs, project_id \in tenants, fault \in faults :
        ingest_errors(error, project_id, fault)

(***************************************************************************)
(* POST /ingest/errors/batch (api/ingest.rs, ingest_errors_batch).         *)
(***************************************************************************)
\* A variant that answers 500 as soon as one item failed.
BatchStatusStrict(success_count, error_count) ==
    IF error_count > 0 THEN 500 ELSE 202

\* if error_count > 0 && success_count == 0 { 500 } else { 202 }
BatchStatus(success_count, error_count) ==
    IF error_count > 0 /\ success_count = 0 THEN 500 ELSE 202

\* The request being served: the items of its body, the index of the item the
\* loop is at, the two counters, and as history what became of each item.
BatchRunning(batch, project_id) ==
    [state |-> "run", errors |-> batch, project_id |-> project_id, i |-> 1,
     success_count |-> 0, error_count |-> 0, results |-> <<>>]

\* The loop is over: the answer.
BatchAnswer(request) ==
    IF request.i <= Len(request.errors) THEN request
    ELSE [request EXCEPT !.state = "done"]
         @@ [status |-> BatchStatus(request.success_count, request.error_count)]

\* A request arrives.
BatchBegin(batch, project_id) ==
    /\ ebatch.state # "run"
    /\ ebatch' = BatchAnswer(BatchRunning(batch, project_id))
    /\ UNCHANGED <<rest, now, errors, occurrences, spans, rollups_hourly, deploys, gone,
                   latest, last, inflight>>

\* One turn of the loop: insert the item and count the result.
BatchItem(fault) ==
    /\ ebatch.state = "run"
    /\ \E out \in InsertOutcomes(Db(errors, occurrences), ebatch.errors[ebatch.i],
                                 ebatch.project_id, now, fault) :
          /\ WithinBounds(out.db)
          /\ errors' = out.db.errors
          /\ occurrences' = out.db.occurrences
          /\ gone' = GoneAfter(out)
          /\ ebatch' =
               BatchAnswer(
                 [ebatch EXCEPT !.i = @ + 1,
                                !.success_count = IF out.ok THEN @ + 1 ELSE @,
                                !.error_count = IF out.ok THEN @ ELSE @ + 1,
                                !.results = Append(@, IF out.ok THEN "ok" ELSE "failed")])
    /\ UNCHANGED <<rest, now, spans, rollups_hourly, deploys, latest, last, inflight>>

\* The bodies of at most MaxBatch items, each one of `inputs`.
Batches(inputs) == UNION {[1..n -> inputs] : n \in 0..MaxBatch}

ingest_errors_batch(inputs, tenants, faults) ==
    \/ \E batch \in Batches(inputs), project_id \in tenants :
          BatchBegin(batch, project_id)
    \/ \E fault \in faults : BatchItem(fault)

(***************************************************************************)
(* Exception events of a span (models/span.rs, extract_and_insert_errors). *)
(***************************************************************************)
\* A span event: its name and its exception.type (None when absent),
\* exception.message and exception.stacktrace (one frame per line).
SpanEvent(name, type, message, stacktrace) ==
    [name |-> name, type |-> type, message |-> message, stacktrace |-> stacktrace]

\* A line of a stack trace as text.
FrameText(frame) == frame.path \o (IF frame.method THEN ":in `m'" ELSE "")

\* Sha256 as the hex text of a digest: distinct inputs give distinct texts.
Sha256Hex(text) == "sha256(" \o text \o ")"

\* The IncomingError built from an exception event.
EventError(event, trace_id, happened_at) ==
    LET first_line == IF event.stacktrace = <<>> THEN ""
                      ELSE FrameText(event.stacktrace[1])
    IN  IncomingError(event.type[1], event.message, event.stacktrace,
                      Sha256Hex(event.type[1] \o ":" \o first_line),
                      <<trace_id>>, <<happened_at>>)

\* An event that extract_and_insert_errors forwards to insert.
IsException(event) == event.name = "exception" /\ event.type # None

\* A variant whose loop ends at the first insert that fails.
RECURSIVE ExtractUntilFailure(_, _, _, _, _, _, _, _, _)
ExtractUntilFailure(db, events, i, trace_id, happened_at, project_id, t, faults, acc) ==
    IF i > Len(events) THEN {[db |-> db, results |-> acc.results, lost |-> acc.lost]}
    ELSE IF ~IsException(events[i])
    THEN ExtractUntilFailure(db, events, i + 1, trace_id, happened_at, project_id, t,
                             faults,
                             [results |-> Append(acc.results, "skipped"), lost |-> acc.lost])
    ELSE UNION {
        IF out.ok
        THEN ExtractUntilFailure(out.db, events, i + 1, trace_id, happened_at, project_id,
                                 t, faults,
                                 [results |-> Append(acc.results, "ok"), lost |-> acc.lost])
        ELSE {[db |-> out.db, results |-> Append(acc.results, "failed"),
               lost |-> IF out.written # 0 THEN Append(acc.lost, out.written)
                        ELSE acc.lost]} :
        out \in InsertOutcomes(db, EventError(events[i], trace_id, happened_at),
                               project_id, t, faults[i])}

\* The loop over the events from index i on: each exception event is inserted,
\* a failed insert is logged and the loop goes on.  faults[i] is the statement
\* that fails while event i is inserted.  Each outcome is the store left and,
\* for every event, "ok", "failed" or "skipped", with the group rows written
\* by failed inserts.
RECURSIVE ExtractFrom(_, _, _, _, _, _, _, _, _)
ExtractFrom(db, events, i, trace_id, happened_at, project_id, t, faults, acc) ==
    IF i > Len(events) THEN {[db |-> db, results |-> acc.results, lost |-> acc.lost]}
    ELSE IF ~IsException(events[i])
    THEN ExtractFrom(db, events, i + 1, trace_id, happened_at, project_id, t, faults,
                     [results |-> Append(acc.results, "skipped"), lost |-> acc.lost])
    ELSE UNION {
        ExtractFrom(out.db, events, i + 1, trace_id, happened_at, project_id, t, faults,
                    [results |-> Append(acc.results, IF out.ok THEN "ok" ELSE "failed"),
                     lost |-> IF ~out.ok /\ out.written # 0
                              THEN Append(acc.lost, out.written) ELSE acc.lost]) :
        out \in InsertOutcomes(db, EventError(events[i], trace_id, happened_at),
                               project_id, t, faults[i])}

extract_and_insert_errors(db, events, trace_id, happened_at, project_id, t, faults) ==
    IF events = None THEN {[db |-> db, results |-> <<>>, lost |-> <<>>]}
    ELSE ExtractFrom(db, events[1], 1, trace_id, happened_at, project_id, t, faults,
                     [results |-> <<>>, lost |-> <<>>])

ExceptionEvent == SpanEvent("exception", <<"E">>, MessageXY, <<AppFrameA>>)
OtherException == SpanEvent("exception", <<"E">>, MessageW, <<AppFrameA>>)
LogEvent == SpanEvent("log", None, <<>>, <<>>)
UntypedException == SpanEvent("exception", None, MessageXY, <<>>)

\* The statements that may fail while the events of a span are inserted.
EventFaults(events) ==
    IF events = None THEN {<<>>}
    ELSE {f \in [1..Len(events[1]) -> {"none", "pool", "occurrence"}] :
            \A i \in 1..Len(events[1]) : ~IsException(events[1][i]) => f[i] = "none"}

Count(seq, x) == Cardinality({i \in 1..Len(seq) : seq[i] = x})

\* History after an extraction: the occurrences its failed inserts left out.
GoneWith(ids, lost) ==
    [id \in ids |-> (IF id \in DOMAIN gone THEN gone[id] ELSE 0) + Count(lost, id)]

(***************************************************************************)
(* The OTLP span writer (models/span.rs, insert_otlp_batch) and its        *)
(* endpoint (api/ingest.rs, ingest_spans).                                 *)
(***************************************************************************)
\* The base64 texts the model sends: "qw==" is the one byte 0xab.
Base64Decode(s) == IF s = "qw==" THEN <<"ab">> ELSE None

\* decode_id: the hex of the decoded bytes if the text is base64, else the text.
decode_id(s) == IF Base64Decode(s) # None THEN Base64Decode(s)[1] ELSE s

\* str::parse::<i64>() on the texts the model sends: Some(n) or None.
DigitText == <<"0", "1", "2", "3", "4", "5", "6", "7", "8", "9">>
ParseI64(s) ==
    IF \E k \in 1..Len(DigitText) : DigitText[k] = s
    THEN <<(CHOOSE k \in 1..Len(DigitText) : DigitText[k] = s) - 1>>
    ELSE None

\* A span of a request body; without more said it has no parent, no kind and
\* no attribute.
OtlpSpan(trace_id, span_id, name, start, end, events) ==
    [trace_id |-> trace_id, span_id |-> span_id, name |-> name,
     start_time_unix_nano |-> start, end_time_unix_nano |-> end, events |-> events,
     parent_span_id |-> None, kind |-> None, attributes |-> <<>>]

\* The same span under a parent, of a kind, with attributes (a map of texts).
SpanOf(otlp_span, parent_span_id, kind, attributes) ==
    [otlp_span EXCEPT !.parent_span_id = parent_span_id, !.kind = kind,
                      !.attributes = attributes]

\* str::contains, str::starts_with and str::to_lowercase (ASCII).
contains(text, piece) ==
    \E i \in 1..(Len(text) - Len(piece) + 1) : SubSeq(text, i, i + Len(piece) - 1) = piece
name_starts_with(text, prefix) ==
    Len(text) >= Len(prefix) /\ SubSeq(text, 1, Len(prefix)) = prefix
UpperCase == "ABCDEFGHIJKLMNOPQRSTUVWXYZ"
LowerCase == "abcdefghijklmnopqrstuvwxyz"
RECURSIVE to_lowercase(_)
to_lowercase(text) ==
    IF Len(text) = 0 THEN ""
    ELSE LET c == SubSeq(text, 1, 1)
             rest_of == to_lowercase(SubSeq(text, 2, Len(text)))
         IN  IF \E k \in 1..Len(UpperCase) : SubSeq(UpperCase, k, k) = c
             THEN LET k == CHOOSE k \in 1..Len(UpperCase) : SubSeq(UpperCase, k, k) = c
                  IN  SubSeq(LowerCase, k, k) \o rest_of
             ELSE c \o rest_of

contains_key(attributes, key) == key \in DOMAIN attributes

\* has_http of from_attributes.
HasHttp(attributes) ==
    \E key \in {"http.url", "http.method", "url.full", "http.request.method"} :
        contains_key(attributes, key)

\* from_attributes past its HTTP rule: views, jobs, commands, else internal.
LaterRules(name, kind, attributes) ==
    LET name_lower == to_lowercase(name)
    IN  IF \/ name_starts_with(name, "render_template")
           \/ name_starts_with(name, "render_partial")
           \/ name_starts_with(name, "render_collection")
           \/ contains(name, ".erb") \/ contains(name, ".haml")
           \/ contains(name, ".slim") \/ contains(name, "ActionView")
        THEN "View"
        ELSE IF kind = 4 \/ kind = 5 THEN "Job"
        ELSE IF contains_key(attributes, "messaging.system")
                \/ contains_key(attributes, "messaging.destination.name")
        THEN "Job"
        ELSE IF \/ contains(name_lower, "sidekiq") \/ contains(name_lower, "activejob")
                \/ contains(name_lower, "active_job") \/ contains(name_lower, "perform")
        THEN "Job"
        ELSE IF \/ name_starts_with(name_lower, "rake:")
                \/ name_starts_with(name_lower, "rake ")
                \/ contains(name_lower, "rake::task")
                \/ name_starts_with(name_lower, "thor:")
                \/ name_starts_with(name_lower, "make:")
        THEN "Command"
        ELSE "Internal"

\* A rule order in which HTTP attributes are looked at before db attributes.
FromAttributesHttpFirst(name, kind, attributes) ==
    IF HasHttp(attributes) /\ kind = 3 THEN "HttpClient"
    ELSE IF HasHttp(attributes) /\ kind = 2 THEN "HttpServer"
    ELSE IF contains_key(attributes, "db.system") \/ contains_key(attributes, "db.statement")
    THEN IF contains_key(attributes, "db.system")
            /\ attributes["db.system"] \in {"elasticsearch", "opensearch"}
         THEN "Search" ELSE "Db"
    ELSE LaterRules(name, kind, attributes)

\* SpanCategory::from_attributes.
from_attributes(name, kind, attributes) ==
    LET db_system == IF contains_key(attributes, "db.system")
                     THEN attributes["db.system"] ELSE ""
    IN  IF contains_key(attributes, "db.system") \/ contains_key(attributes, "db.statement")
        THEN IF db_system = "elasticsearch" \/ db_system = "opensearch"
             THEN "Search" ELSE "Db"
        ELSE IF HasHttp(attributes) /\ kind = 3 THEN "HttpClient"
        ELSE IF HasHttp(attributes) /\ kind = 2 THEN "HttpServer"
        ELSE LaterRules(name, kind, attributes)

\* SpanCategory::as_str.
category_as_str(category) ==
    CASE category = "HttpServer" -> "http_server"
      [] category = "HttpClient" -> "http_client"
      [] category = "Db" -> "db"
      [] category = "View" -> "view"
      [] category = "Search" -> "search"
      [] category = "Job" -> "job"
      [] category = "Command" -> "command"
      [] category = "Internal" -> "internal"

\* A variant that gives every category a root type.
RootTypeOfAny(category) == <<"Web">>

\* RootSpanType::from_category.
from_category(category) ==
    CASE category = "HttpServer" -> <<"Web">>
      [] category = "Job" -> <<"Job">>
      [] category = "Command" -> <<"Command">>
      [] OTHER -> None

\* RootSpanType::as_str.
root_as_str(root_span_type) ==
    CASE root_span_type = "Web" -> "web"
      [] root_span_type = "Job" -> "job"
      [] root_span_type = "Command" -> "command"

\* The row written for a span whose timestamps parse.
SpanRow(otlp_span, project_id) ==
    LET start_nano == ParseI64(otlp_span.start_time_unix_nano)[1]
        end_nano == ParseI64(otlp_span.end_time_unix_nano)[1]
        kind == IF otlp_span.kind = None THEN 0 ELSE otlp_span.kind[1]
        category == from_attributes(otlp_span.name, kind, otlp_span.attributes)
        is_root == otlp_span.parent_span_id = None \/ otlp_span.parent_span_id[1] = ""
        root_span_type == IF is_root THEN from_category(category) ELSE None
    IN  [project_id |-> project_id,
         trace_id |-> decode_id(otlp_span.trace_id),
         span_id |-> decode_id(otlp_span.span_id),
         parent_span_id |-> IF is_root THEN None
                            ELSE <<decode_id(otlp_span.parent_span_id[1])>>,
         start_time_unix_nano |-> start_nano, end_time_unix_nano |-> end_nano,
         name |-> otlp_span.name, kind |-> kind,
         span_category |-> category_as_str(category),
         root_span_type |-> IF root_span_type = None THEN None
                            ELSE <<root_as_str(root_span_type[1])>>,
         happened_at |-> HappenedAtText(start_nano)]

\* The key of the spans table: UNIQUE(trace_id, span_id).
SpanKey(row) == <<row.trace_id, row.span_id>>

\* A variant that only adds the row.
InsertPlain(table, row) == table \cup {row}

\* INSERT OR REPLACE INTO spans: the rows in conflict with the new one go.
InsertOrReplace(table, row) ==
    {r \in table : SpanKey(r) # SpanKey(row)} \cup {row}

\* A span neither timestamp of which fails to parse.
WellFormed(otlp_span) ==
    /\ ParseI64(otlp_span.start_time_unix_nano) # None
    /\ ParseI64(otlp_span.end_time_unix_nano) # None

\* A request being served: the spans of its body in order, the index of the
\* span the loop is at, count, and as history the indexes of the spans whose
\* rows it wrote, what became of each span's events, and whether a statement
\* of the writer itself failed.
Running(batch, project_id) ==
    [state |-> "run", batch |-> batch, project_id |-> project_id, i |-> 1,
     count |-> 0, wrote |-> <<>>, results |-> <<>>, faulted |-> FALSE]

\* ingest_spans answers: 202 for Ok(count), 500 for Err.
Respond(request, ok) ==
    [request EXCEPT !.state = "done"] @@ [status |-> IF ok THEN 202 ELSE 500]

\* A request arrives; pool.get() may fail; the loop over no span returns Ok(0).
SpansBegin(w, batch, project_id, fault) ==
    /\ inflight[w].state # "run"
    /\ inflight' =
         [inflight EXCEPT ![w] =
            IF fault = "pool"
            THEN Respond([Running(batch, project_id) EXCEPT !.faulted = TRUE], FALSE)
            ELSE IF batch = <<>> THEN Respond(Running(batch, project_id), TRUE)
            ELSE Running(batch, project_id)]
    /\ UNCHANGED <<rest, now, errors, occurrences, spans, rollups_hourly, deploys, gone,
                   latest, last, ebatch>>

\* One turn of the loop: parse the timestamps, write the row, count it, forward
\* the exception events; after the last span, Ok(count).
SpanStep(w, fault, faults) ==
    LET request == inflight[w]
        otlp_span == request.batch[request.i]
        row == SpanRow(otlp_span, request.project_id)
    IN  /\ request.state = "run"
        /\ IF ~WellFormed(otlp_span)
           THEN /\ inflight' = [inflight EXCEPT ![w] = Respond(request, FALSE)]
                /\ UNCHANGED <<errors, occurrences, spans, gone, latest>>
           ELSE IF fault = "insert"
           THEN /\ inflight' = [inflight EXCEPT ![w] =
                                  Respond([request EXCEPT !.faulted = TRUE], FALSE)]
                /\ UNCHANGED <<errors, occurrences, spans, gone, latest>>
           ELSE \E out \in extract_and_insert_errors(
                              Db(errors, occurrences), otlp_span.events, row.trace_id,
                              row.happened_at, request.project_id, now, faults) :
                    LET next == [request EXCEPT !.i = @ + 1, !.count = @ + 1,
                                                !.wrote = Append(@, request.i),
                                                !.results = Append(@, out.results)]
                    IN  /\ WithinBounds(out.db)
                        /\ spans' = InsertOrReplace(spans, row)
                        /\ latest' = (SpanKey(row) :> row) @@ latest
                        /\ errors' = out.db.errors
                        /\ occurrences' = out.db.occurrences
                        /\ gone' = GoneWith({g.id : g \in out.db.errors}, out.lost)
                        /\ inflight' = [inflight EXCEPT ![w] =
                                          IF next.i > Len(next.batch)
                                          THEN Respond(next, TRUE) ELSE next]
        /\ UNCHANGED <<rest, now, rollups_hourly, deploys, last, ebatch>>

\* The spans the model sends.  SpanQw names the span SpanAb names, in base64;
\* SpanBadStart and SpanBadEnd carry a timestamp that is no number.
SpanAb == OtlpSpan("t1", "ab", "a", "4", "5", None)
SpanQw == OtlpSpan("t1", "qw==", "b", "1", "2", None)
SpanCd == OtlpSpan("t1", "cd", "c", "5", "6", None)
SpanBadStart == OtlpSpan("t1", "cd", "c", "x", "6", None)
SpanBadEnd == OtlpSpan("t1", "cd", "c", "5", "", None)
SpanRaising ==
    OtlpSpan("t1", "ab", "a", "1", "2", <<<<ExceptionEvent, LogEvent, OtherException>>>>)
SpanLogging == OtlpSpan("t1", "cd", "c", "5", "6", <<<<UntypedException>>>>)

\* Requests to POST /ingest/v1/traces from the workers W, their bodies among
\* `batches`.
IngestSpans(W, batches) ==
    \E w \in W :
        \/ \E batch \in batches, fault \in {"none", "pool"} :
              SpansBegin(w, batch, "p1", fault)
        \/ /\ inflight[w].state = "run"
           /\ \E fault \in {"none", "insert"},
                 faults \in EventFaults(inflight[w].batch[inflight[w].i].events) :
                 SpanStep(w, fault, faults)

(***************************************************************************)
(* Retention (jobs/retention.rs).                                          *)
(***************************************************************************)
\* Duration::days(n) and Duration::hours(n), in ticks: the model's clock has
\* days and hours one second long.
Days(n) == n * MsPerSec * SubPerMs
Hours(n) == n * MsPerSec * SubPerMs

\* Config: the horizons in days, as the operator has set them
\* (RETENTION_DAYS_SPANS, RETENTION_DAYS_ERRORS, RETENTION_DAYS_HOURLY_ROLLUPS).
retention_days_spans == 1
retention_days_errors == 1
retention_days_hourly_rollups == 2
\* Duration::days(90) of the deploys.
DeployDays == 90

\* DELETE FROM <table> WHERE <column> < ?1: the rows that stay.
DeleteBefore(table, column, before) ==
    {r \in table : ~TextLess(r[column], before)}

Categories == <<"spans", "occurrences", "hourly", "deploys", "vacuum">>

Tables(s, o, h, d) == [spans |-> s, occurrences |-> o, hourly |-> h, deploys |-> d]

\* The store after the step for one category, at time t.
CleanupStep(tables, category, t) ==
    CASE category = "spans" ->
            [tables EXCEPT !.spans =
                DeleteBefore(@, "happened_at", Rfc3339Text(t - Days(retention_days_spans)))]
      [] category = "occurrences" ->
            [tables EXCEPT !.occurrences =
                DeleteBefore(@, "happened_at", Rfc3339Text(t - Days(retention_days_errors)))]
      [] category = "hourly" ->
            [tables EXCEPT !.hourly =
                DeleteBefore(@, "hour", Rfc3339Text(t - Days(retention_days_hourly_rollups)))]
      [] category = "deploys" ->
            [tables EXCEPT !.deploys =
                DeleteBefore(@, "deployed_at", Rfc3339Text(t - Days(DeployDays)))]
      [] OTHER -> tables

\* A variant that logs the failure of a category and goes on to the next.
RECURSIVE CleanupSwallowing(_, _, _, _, _, _)
CleanupSwallowing(tables, i, t, fault, sunday, attempted) ==
    IF i > Len(Categories) THEN [tables |-> tables, attempted |-> attempted, ok |-> TRUE]
    ELSE IF Categories[i] = "vacuum" /\ ~sunday
    THEN CleanupSwallowing(tables, i + 1, t, fault, sunday, attempted)
    ELSE IF fault = Categories[i]
    THEN CleanupSwallowing(tables, i + 1, t, fault, sunday, Append(attempted, Categories[i]))
    ELSE CleanupSwallowing(CleanupStep(tables, Categories[i], t), i + 1, t, fault, sunday,
                           Append(attempted, Categories[i]))

\* cleanup from category i on; `fault` is the category whose statement fails
\* ("none": no statement fails), `sunday` whether the vacuum is due.  The ?
\* after each delete returns the error at once.
RECURSIVE CleanupFrom(_, _, _, _, _, _)
CleanupFrom(tables, i, t, fault, sunday, attempted) ==
    IF i > Len(Categories) THEN [tables |-> tables, attempted |-> attempted, ok |-> TRUE]
    ELSE IF Categories[i] = "vacuum" /\ ~sunday
    THEN CleanupFrom(tables, i + 1, t, fault, sunday, attempted)
    ELSE IF fault = Categories[i]
    THEN [tables |-> tables, attempted |-> Append(attempted, Categories[i]), ok |-> FALSE]
    ELSE CleanupFrom(CleanupStep(tables, Categories[i], t), i + 1, t, fault, sunday,
                     Append(attempted, Categories[i]))

cleanup(tables, t, fault, sunday) == CleanupFrom(tables, 1, t, fault, sunday, <<>>)

\* History after a purge: the occurrences it took from each group.
GonePurged(kept) ==
    [id \in DOMAIN gone |->
        gone[id] + Cardinality({o \in occurrences \ kept : o.error_id = id})]

\* One tick of the retention job: cleanup runs, and an Err is logged.
RetentionWork(fault, sunday) ==
    LET out == cleanup(Tables(spans, occurrences, rollups_hourly, deploys), now, fault, sunday)
    IN  /\ spans' = out.tables.spans
        /\ occurrences' = out.tables.occurrences
        /\ rollups_hourly' = out.tables.hourly
        /\ deploys' = out.tables.deploys
        /\ gone' = GonePurged(out.tables.occurrences)
        /\ last' = [op |-> "cleanup", attempted |-> out.attempted, ok |-> out.ok]
        /\ UNCHANGED <<now, errors, latest, ebatch, inflight>>

RetentionTick(fault, sunday) == RetentionWork(fault, sunday) /\ UNCHANGED rest

Retention(faults) ==
    \E fault \in faults, sunday \in BOOLEAN : RetentionTick(fault, sunday)

CleanupFaults == {"none"} \cup {Categories[i] : i \in 1..Len(Categories)}

(***************************************************************************)
(* Deploys and hourly rollups (models/deploy.rs, models/rollup.rs), and    *)
(* the clock.                                                              *)
(***************************************************************************)
\* POST /ingest/deploys: deploy::insert; the row is dated by the client's
\* timestamp or by now.
ingest_deploys(timestamp, project_id, fault) ==
    /\ Cardinality(deploys) < MaxRows
    /\ deploys' =
         IF fault # "none" THEN deploys
         ELSE deploys \cup
                {[id |-> NewRowId(deploys), project_id |-> project_id,
                  deployed_at |-> IF timestamp = None THEN Rfc3339Text(now)
                                  ELSE timestamp[1]]}
    /\ UNCHANGED <<rest, now, errors, occurrences, spans, rollups_hourly, gone, latest,
                   last, ebatch, inflight>>

\* format("%Y-%m-%dT%H:00:00Z"): the hour, no fraction.
HourText(t) == <<SecOf(t), Code.zed>>

\* INSERT OR REPLACE INTO rollups_hourly, its key UNIQUE(hour, path, method).
insert_hourly(rollup) ==
    /\ rollups_hourly' =
         {r \in rollups_hourly :
            <<r.hour, r.path, r.method>> # <<rollup.hour, rollup.path, rollup.method>>}
         \cup {rollup}
    /\ Cardinality(rollups_hourly') <= MaxRows
    /\ UNCHANGED <<rest, now, errors, occurrences, spans, deploys, gone, latest, last,
                   ebatch, inflight>>

\* The hourly rollup job writes the rollup of a route for the hour before now.
HourlyRollup ==
    insert_hourly([hour |-> HourText(now - Hours(1)), path |-> "/", method |-> "GET",
                   request_count |-> 1])

\* Time passes.
Tick ==
    /\ now < MaxNow
    /\ now' = now + 1
    /\ UNCHANGED <<rest, errors, occurrences, spans, rollups_hourly, deploys, gone, latest,
                   last, ebatch, inflight>>

(***************************************************************************)
(* The error endpoint alone: requests to POST /ingest/errors, one at a     *)
(* time, against a store that starts empty.                                *)
(***************************************************************************)
NextErrors == IngestErrors(ErrorInputs, Projects, Faults)

SpecErrors == InitAt(MaxNow) /\ [][NextErrors]_vars

\* The groups of a project; an absent project is a project of its own.
GroupsOf(table, project_id) == {g \in table : g.project_id = project_id}

\* Jaccard similarity of two messages is at least 0.50.
JaccardAtLeastHalf(a, b) ==
    LET A == WordSet(a)
        B == WordSet(b)
    IN  IF A \cup B = {} THEN TRUE
        ELSE Cardinality(A \cap B) * 2 >= Cardinality(A \cup B)

\* The location fingerprint L of a report: class, ":" and the first frame that
\* is not library code.
LocationOf(error) ==
    generate_location_fingerprint(error.exception_class, error.backtrace)

\* The timestamp of an insert made at time t.
InsertTimestamp(error, t) ==
    IF error.timestamp # None THEN error.timestamp[1] ELSE Rfc3339Text(t)

\* The group id was merged into: one more occurrence, last seen at the
\* insert's timestamp, nothing else of it changed.
MergedInto(before, after, id, timestamp) ==
    \E g \in before : \E h \in after :
        /\ g.id = id /\ h.id = id
        /\ h = [g EXCEPT !.occurrence_count = g.occurrence_count + 1,
                         !.last_seen_at = timestamp]
        /\ after \ {h} = before \ {g}

\* C3: in every reachable state no two error groups have the same
\* (project, fingerprint), a group without a project (project_id NULL)
\* included.
C3_UniqueFingerprintPerProject ==
    \A g \in errors : \A h \in errors :
        (g.project_id = h.project_id /\ g.fingerprint = h.fingerprint) => g.id = h.id

\* C4: an insert no statement of which fails chooses (1) a group of the
\* project with the caller's fingerprint, else (2) a group of the project with
\* fingerprint L and a message of Jaccard similarity >= 0.50, else (3) makes a
\* new group with fingerprint L, status open and occurrence_count 1; in (1)
\* and (2) the chosen group's count grows by one and its last_seen becomes the
\* insert's timestamp.  Stated of every insert that can be made in the state.
C4_InsertChoosesGroupInOrder ==
    \A error \in ErrorInputs : \A project_id \in Projects :
        \A out \in InsertOutcomes(Db(errors, occurrences), error, project_id, now, "none") :
            LET mine == GroupsOf(errors, project_id)
                exact == {g \in mine : g.fingerprint = error.fingerprint}
                similar == {g \in mine : /\ g.fingerprint = LocationOf(error)
                                         /\ JaccardAtLeastHalf(error.message, g.message)}
                timestamp == InsertTimestamp(error, now)
            IN  /\ out.ok
                /\ IF exact # {}
                   THEN /\ out.id \in {g.id : g \in exact}
                        /\ MergedInto(errors, out.db.errors, out.id, timestamp)
                   ELSE IF similar # {}
                   THEN /\ out.id \in {g.id : g \in similar}
                        /\ MergedInto(errors, out.db.errors, out.id, timestamp)
                   ELSE \E g \in out.db.errors \ errors :
                        /\ out.db.errors = errors \cup {g}
                        /\ g.id = out.id
                        /\ g.id \notin {h.id : h \in errors}
                        /\ g.project_id = project_id
                        /\ g.fingerprint = LocationOf(error)
                        /\ g.status = "open"
                        /\ g.occurrence_count = 1

\* C5: every insert that returns a group id has appended exactly one
\* occurrence row, linked to the returned id and carrying the insert's
\* timestamp; no other occurrence row is added, changed or removed.  Stated
\* of every insert that can be made in the state, whatever statement fails.
C5_OkInsertAppendsOneOccurrence ==
    \A error \in ErrorInputs : \A project_id \in Projects : \A fault \in Faults :
        \A out \in InsertOutcomes(Db(errors, occurrences), error, project_id, now, fault) :
            out.ok =>
                \E o \in out.db.occurrences :
                    /\ o \notin occurrences
                    /\ o.id \notin {p.id : p \in occurrences}
                    /\ out.db.occurrences = occurrences \cup {o}
                    /\ o.error_id = out.id
                    /\ out.id \in {g.id : g \in out.db.errors}
                    /\ o.happened_at = InsertTimestamp(error, now)

\* A group that two inserts went to, the second with a timestamp of its
\* client's: both occurrence rows are there, the later one linked to it.
C5_Witness ==
    \E g \in errors :
        /\ g.occurrence_count = 2
        /\ g.last_seen_at = PastTimestamp[1]
        /\ Cardinality({o \in occurrences : o.error_id = g.id}) = 2
        /\ \E o \in occurrences : o.error_id = g.id /\ o.happened_at = PastTimestamp[1]

(***************************************************************************)
(* The span endpoint: requests to POST /ingest/v1/traces served by two     *)
(* workers at once, against a store that starts empty.                     *)
(***************************************************************************)
PlainBatches ==
    {<<>>, <<SpanAb, SpanQw>>, <<SpanQw, SpanBadStart, SpanAb>>, <<SpanCd>>,
     <<SpanBadEnd>>}

NextSpans == IngestSpans(Workers, PlainBatches)

SpecSpans == InitAt(MaxNow) /\ [][NextSpans]_vars

\* A timestamp text of a request that is a number.
IsNumber(text) == \E k \in 1..Len(DigitText) : DigitText[k] = text

\* C1: the store holds at most one span row per (trace_id, span_id), its
\* fields those of the span most recently written under that key; a batch
\* writes its spans in the order they appear in.
C1_OneRowPerSpanKey ==
    /\ \A r \in spans : \A q \in spans :
          (r.trace_id = q.trace_id /\ r.span_id = q.span_id) => r = q
    /\ \A r \in spans :
          /\ <<r.trace_id, r.span_id>> \in DOMAIN latest
          /\ latest[<<r.trace_id, r.span_id>>] = r
    /\ \A w \in Workers :
          inflight[w].state # "idle" =>
              \A k \in 1..Len(inflight[w].wrote) : inflight[w].wrote[k] = k

\* Both workers have written the span ("t1", "ab"): one as the two spans of its
\* batch, the other, still running, as the first of its own; one row is there.
C1_Witness ==
    /\ inflight["w1"].state = "done"
    /\ inflight["w1"].batch = <<SpanAb, SpanQw>>
    /\ inflight["w1"].wrote = <<1, 2>>
    /\ inflight["w2"].state = "run"
    /\ inflight["w2"].batch = <<SpanQw, SpanBadStart, SpanAb>>
    /\ inflight["w2"].wrote = <<1>>
    /\ Cardinality(spans) = 1
    /\ \E r \in spans : r.span_id = "ab" /\ r.name = "b"

\* C8: when a span of a batch is malformed (its start or end timestamp is no
\* number) the ingest fails and no span of the batch has been stored, the
\* spans that precede the malformed one included.
C8_MalformedSpanStoresNothing ==
    \A w \in Workers :
        LET request == inflight[w]
        IN  (/\ request.state = "done"
             /\ \E k \in 1..Len(request.batch) :
                   \/ ~IsNumber(request.batch[k].start_time_unix_nano)
                   \/ ~IsNumber(request.batch[k].end_time_unix_nano))
            => /\ request.status = 500
               /\ request.wrote = <<>>

(***************************************************************************)
(* The retention job at work while spans, errors, deploys and rollups come *)
(* in and time passes.                                                     *)
(***************************************************************************)
LongAgo == <<Rfc3339Text(0 - Days(DeployDays + 1))>>

RetentionBatches == {<<SpanQw, SpanAb>>}

NextRetention ==
    \/ Tick
    \/ IngestSpans({"w1"}, RetentionBatches)
    \/ IngestErrors({e \in ErrorInputs : e.timestamp # None}, {"p1"}, {"none"})
    \/ \E timestamp \in {None, LongAgo}, fault \in {"none", "insert"} :
          ingest_deploys(timestamp, "p1", fault)
    \/ HourlyRollup
    \/ Retention(CleanupFaults)

SpecRetention == InitAt(MaxNow - 1) /\ [][NextRetention]_vars

\* The tables the retention job purges, in the order it purges them.
Purged == <<"spans", "occurrences", "hourly", "deploys">>

TableOf(category) ==
    CASE category = "spans" -> spans
      [] category = "occurrences" -> occurrences
      [] category = "hourly" -> rollups_hourly
      [] category = "deploys" -> deploys

\* C6: immediately after a cleanup run none of whose statements failed, with
\* span horizon D at time now, no span with happened_at older than now - D
\* remains in the store.
C6_NoSpanOlderThanHorizon ==
    [][(\E sunday \in BOOLEAN : RetentionTick("none", sunday)) =>
          \A r \in spans' :
              ~(InstantOf(r.happened_at) < now - Days(retention_days_spans))]_vars

\* C7 as the specification has it: when the deletion of one category fails,
\* the run still attempts the deletion of every remaining category.
C7_EveryCategoryAttempted ==
    last.op = "cleanup" =>
        \A k \in 1..Len(Purged) : \E j \in 1..Len(last.attempted) :
            last.attempted[j] = Purged[k]

\* C7, amended: the first deletion that fails ends the run with its error: the
\* categories before it have been purged, it and the categories after it are
\* left as they were, and those after it were not attempted.
C7_FailureEndsTheRun ==
    [][\A k \in 1..Len(Purged) :
          (\E sunday \in BOOLEAN : RetentionTick(Purged[k], sunday)) =>
              /\ ~last'.ok
              /\ last'.attempted = SubSeq(Purged, 1, k)
              /\ \A j \in k..Len(Purged) : TableOf(Purged[j])' = TableOf(Purged[j])
              /\ \A r \in spans' :
                    k > 1 => ~TextLess(r.happened_at,
                                       Rfc3339Text(now - Days(retention_days_spans)))]_vars

\* A run that failed at the error occurrences: the old spans are gone, an
\* occurrence and a deploy past their horizons are still there.
C7_Witness ==
    /\ last.op = "cleanup"
    /\ ~last.ok
    /\ last.attempted = <<"spans", "occurrences">>
    /\ latest # <<>>
    /\ spans = {}
    /\ \E o \in occurrences :
          InstantOf(o.happened_at) < now - Days(retention_days_errors)
    /\ \E d \in deploys : d.deployed_at = LongAgo[1]

(***************************************************************************)
(* The error store fed by both endpoints and purged by the retention job.  *)
(***************************************************************************)
EventBatches == {<<SpanRaising, SpanLogging>>}

NextStore ==
    \/ IngestErrors(ErrorInputs, {"p1"}, {"none", "occurrence"})
    \/ IngestSpans({"w1"}, EventBatches)
    \/ Retention({"none"})

SpecStore == InitAt(MaxNow) /\ [][NextStore]_vars

\* The occurrence rows linked to a group.
Linked(g) == {o \in occurrences : o.error_id = g.id}

\* C2 as the specification has it: for every error group, occurrence_count
\* equals the number of occurrence rows linked to the group.
C2_CountEqualsLinkedRows ==
    \A g \in errors : g.occurrence_count = Cardinality(Linked(g))

\* C2, amended: occurrence_count equals the number of linked rows plus the
\* occurrences of the group that retention has purged or whose row failed to
\* be written after the group was counted up; it is never below the number of
\* linked rows.
C2_CountIsLinkedPlusGone ==
    \A g \in errors :
        /\ g.id \in DOMAIN gone
        /\ g.occurrence_count = Cardinality(Linked(g)) + gone[g.id]
        /\ g.occurrence_count >= Cardinality(Linked(g))

\* A group made from a span's exception event and counted up by a report to
\* the error endpoint; retention has purged the older of its two occurrences.
C2_Witness ==
    /\ last.op = "cleanup"
    /\ \E g \in errors :
          /\ g.first_seen_at = HappenedAtText(1)
          /\ g.last_seen_at = Rfc3339Text(now)
          /\ g.occurrence_count = 2
          /\ gone[g.id] = 1
          /\ \E o \in occurrences : Linked(g) = {o} /\ o.happened_at = Rfc3339Text(now)

\* The number of events a span carries.
EventCount(otlp_span) == IF otlp_span.events = None THEN 0 ELSE Len(otlp_span.events[1])

\* C9: when the insert of an error made from a span's exception event fails,
\* the span's row is still written and counted, the remaining events of the
\* span and the remaining spans of the batch are processed, and the ingest,
\* unless a statement of the span writer itself fails or a span is malformed,
\* answers 202 with every span counted.
C9_ExtractionFailureKeepsSpan ==
    \A w \in Workers :
        LET request == inflight[w]
        IN  request.state # "idle" =>
            \A k \in 1..Len(request.results) :
                (\E j \in 1..Len(request.results[k]) : request.results[k][j] = "failed")
                => /\ k <= Len(request.wrote) /\ request.wrote[k] = k
                   /\ request.count >= k
                   /\ <<decode_id(request.batch[k].trace_id),
                        decode_id(request.batch[k].span_id)>> \in DOMAIN latest
                   /\ Len(request.results[k]) = EventCount(request.batch[k])
                   /\ request.state = "run" => request.i > k
                   /\ (/\ request.state = "done"
                       /\ ~request.faulted
                       /\ \A i \in 1..Len(request.batch) :
                             /\ IsNumber(request.batch[i].start_time_unix_nano)
                             /\ IsNumber(request.batch[i].end_time_unix_nano))
                      => /\ request.status = 202
                         /\ request.count = Len(request.batch)
                         /\ Len(request.results) = Len(request.batch)

\* A batch of two spans answered 202: the insert for the first event of the
\* first span failed, the one for its last event went through, and both spans
\* are stored.
C9_Witness ==
    /\ inflight["w1"].state = "done"
    /\ inflight["w1"].status = 202
    /\ inflight["w1"].count = 2
    /\ inflight["w1"].results = <<<<"failed", "skipped", "ok">>, <<"skipped">>>>
    /\ Cardinality(spans) = 2
    /\ \E g \in errors : g.message = MessageW

(***************************************************************************)
(* The batch endpoint of the errors.                                       *)
(***************************************************************************)
BatchInputs == {e \in ErrorInputs : e.timestamp = None}

NextBatch == ingest_errors_batch(BatchInputs, {"p1"}, {"none", "pool", "occurrence"})

SpecBatch == InitAt(MaxNow) /\ [][NextBatch]_vars

\* C10: ingest_errors_batch attempts every item, whatever became of the items
\* before it, and answers 500 only when every item failed; a batch one item
\* of which went through is answered 202, items that failed or not.
C10_BatchFailsOnlyWhenAllFailed ==
    LET n == IF ebatch.state = "idle" THEN 0 ELSE Len(ebatch.errors)
        Went(result) == {k \in 1..Len(ebatch.results) : ebatch.results[k] = result}
    IN  /\ ebatch.state = "run" =>
              /\ ebatch.i = Len(ebatch.results) + 1
              /\ ebatch.i <= n
        /\ ebatch.state = "done" =>
              /\ Len(ebatch.results) = n
              /\ ebatch.success_count = Cardinality(Went("ok"))
              /\ ebatch.error_count = Cardinality(Went("failed"))
              /\ ebatch.success_count + ebatch.error_count = n
              /\ ebatch.status \in {202, 500}
              /\ ebatch.status = 500 <=> (n > 0 /\ Went("ok") = {})

\* A batch of two items answered 202: the first item failed, the second went
\* through and its occurrence is in the store.
C10_Witness ==
    /\ ebatch.state = "done"
    /\ ebatch.results = <<"failed", "ok">>
    /\ ebatch.status = 202
    /\ occurrences # {}

(***************************************************************************)
(* The project registry (models/project.rs), the keys of the time before   *)
(* projects (models/api_key.rs) and the middleware in front of /ingest     *)
(* (api/auth.rs).                                                          *)
(***************************************************************************)
\* let bytes: [u8; 24] = rng.gen()
KeyBytes == 24

HexDigit == <<"0", "1", "2", "3", "4", "5", "6", "7", "8", "9",
              "a", "b", "c", "d", "e", "f">>

\* hex::encode: two lower-case digits per byte.
RECURSIVE HexEncode(_)
HexEncode(bytes) ==
    IF Len(bytes) = 0 THEN ""
    ELSE HexDigit[(Head(bytes) \div 16) + 1] \o HexDigit[(Head(bytes) % 16) + 1]
         \o HexEncode(Tail(bytes))

\* What the random generator may return: three of the 2^192 draws.
Draws == {[i \in 1..KeyBytes |-> b] : b \in {0, 171, 255}}

generate_api_key(bytes) == "proj_" \o HexEncode(bytes)

\* The characters of the project names of the model.
LowerChar(c) == CASE c = "D" -> "d" [] c = "S" -> "s" [] OTHER -> c
IsAlphanumeric(c) == c \notin {" ", "-", "!"}

\* slugify: lower case, every other character a '-', then the non-empty pieces
\* between the '-' joined by one '-'.
RECURSIVE SlugFrom(_, _, _)
SlugFrom(name, i, slug) ==
    IF i > Len(name) THEN slug
    ELSE LET c == LowerChar(SubSeq(name, i, i))
             piece_open == i > 1 /\ IsAlphanumeric(SubSeq(name, i - 1, i - 1))
         IN  IF ~IsAlphanumeric(c) THEN SlugFrom(name, i + 1, slug)
             ELSE IF slug # "" /\ ~piece_open THEN SlugFrom(name, i + 1, slug \o "-" \o c)
             ELSE SlugFrom(name, i + 1, slug \o c)

slugify(name) == SlugFrom(name, 1, "")

Project(id, name, slug, api_key) ==
    [id |-> id, name |-> name, slug |-> slug, api_key |-> api_key]

\* The three UNIQUE columns of projects; skip is the row being rewritten.
ProjectUnique(table, row, skip) ==
    \A p \in table \ skip :
        p.name # row.name /\ p.slug # row.slug /\ p.api_key # row.api_key

\* SELECT ... FROM projects ORDER BY id LIMIT 1
FirstProject(table) == CHOOSE p \in table : \A q \in table : p.id <= q.id

\* A variant that inserts the default project whatever the table holds.
EnsureAlwaysInserts(table, bytes, fault) ==
    LET row == Project(NewRowId(table), "Default", "default", generate_api_key(bytes))
    IN  IF fault # "none" THEN [projects |-> table, ok |-> FALSE, project |-> None]
        ELSE [projects |-> table \cup {row}, ok |-> TRUE, project |-> <<row>>]

\* ensure_default_project: what it leaves in the table and what it returns.
EnsureOutcome(table, bytes, fault) ==
    IF fault = "pool" THEN [projects |-> table, ok |-> FALSE, project |-> None]
    ELSE IF table = {} THEN
        LET row == Project(NewRowId(table), "Default", "default",
                           generate_api_key(bytes))
        IN  IF fault = "insert"
            THEN [projects |-> table, ok |-> FALSE, project |-> None]
            ELSE [projects |-> table \cup {row}, ok |-> TRUE, project |-> <<row>>]
    ELSE [projects |-> table, ok |-> TRUE, project |-> <<FirstProject(table)>>]

ensure_default_project(bytes, fault) ==
    LET out == EnsureOutcome(projects, bytes, fault)
    IN  /\ projects' = out.projects
        /\ answer' = [op |-> "ensure", ok |-> out.ok, project |-> out.project]
        /\ UNCHANGED <<store, jobs, input, api_keys, env, aside>>

\* POST /projects: project::create, its result dropped by the handler.
create(name, bytes, fault) ==
    LET row == Project(NewRowId(projects), name, slugify(name),
                       generate_api_key(bytes))
        ok == fault = "none" /\ ProjectUnique(projects, row, {})
    IN  /\ name # ""
        /\ Cardinality(projects) < MaxProjects
        /\ row.id <= MaxProjectId
        /\ projects' = IF ok THEN projects \cup {row} ELSE projects
        /\ answer' = [op |-> "create", ok |-> ok]
        /\ UNCHANGED <<store, jobs, input, api_keys, env, aside>>

\* POST /projects/delete: DELETE FROM projects WHERE id = ?1
delete(id, fault) ==
    /\ projects' = IF fault = "none" THEN {p \in projects : p.id # id} ELSE projects
    /\ answer' = [op |-> "delete", ok |-> fault = "none"]
    /\ UNCHANGED <<store, jobs, input, api_keys, env, aside>>

\* POST /projects/regenerate-key: UPDATE projects SET api_key = ?1 WHERE id = ?2
regenerate_api_key(id, bytes, fault) ==
    LET new_key == generate_api_key(bytes)
        old == {p \in projects : p.id = id}
        new == {[p EXCEPT !.api_key = new_key] : p \in old}
        ok == fault = "none" /\ \A row \in new : ProjectUnique(projects, row, old)
    IN  /\ projects' = IF ok THEN (projects \ old) \cup new ELSE projects
        /\ answer' = [op |-> "regenerate", ok |-> ok]
        /\ UNCHANGED <<store, jobs, input, api_keys, env, aside>>

\* hash_key: SHA-256 of the raw key, in hex; here an injective tag.
hash_key(raw_key) == "sha256:" \o raw_key

\* `miniapm create-key`: api_key::create stores the hash of a new raw key.
api_key_create(bytes) ==
    LET raw_key == "mini_apm_k_" \o HexEncode(bytes)
        row == [id |-> NewRowId(api_keys), key_hash |-> hash_key(raw_key),
                last_used_at |-> None]
    IN  /\ \A k \in api_keys : k.key_hash # row.key_hash
        /\ api_keys' = api_keys \cup {row}
        /\ answer' = [op |-> "create-key", ok |-> TRUE]
        /\ UNCHANGED <<store, jobs, input, projects, env, aside>>

\* ENABLE_PROJECTS is "1" or, in any case of letters, "true".
projects_enabled(e) ==
    e.ENABLE_PROJECTS # None /\ e.ENABLE_PROJECTS[1] \in {"1", "true", "TRUE"}

\* find_by_api_key: the row whose api_key is the text presented; a failed
\* query is read as no row (.ok()).
find_by_api_key(table, api_key, fault) ==
    IF fault = "query" \/ ~\E p \in table : p.api_key = api_key THEN None
    ELSE <<CHOOSE p \in table : p.api_key = api_key>>

starts_with(text, prefix) ==
    Len(text) >= Len(prefix) /\ SubSeq(text, 1, Len(prefix)) = prefix

Rejected(status) == [op |-> "auth", admitted |-> FALSE, status |-> status]
Admitted(project_id) ==
    [op |-> "auth", admitted |-> TRUE, status |-> 200, project_id |-> project_id]

\* api_key::verify: is the hash of the raw key in api_keys?
verify(table, raw_key) ==
    raw_key # "" /\ \E k \in table : k.key_hash = hash_key(raw_key)

\* auth_middleware of the server: the response to a request with the given
\* Authorization header (None: no header).  The fault is a pool that gives no
\* connection to the project lookup ("pool") or to verify ("verify"), or a
\* failing project query ("query").
auth_middleware(header, fault) ==
    IF header = None \/ ~starts_with(header[1], "Bearer ") THEN Rejected(401)
    ELSE
    LET api_key == SubSeq(header[1], 8, Len(header[1]))
        project == find_by_api_key(projects, api_key, fault)
    IN  IF projects_enabled(env) /\ fault = "pool" THEN Rejected(500)
        ELSE IF projects_enabled(env) /\ project # None
        THEN Admitted(<<project[1].id>>)
        ELSE IF env.MINI_APM_API_KEY # None /\ api_key = env.MINI_APM_API_KEY[1]
        THEN Admitted(None)
        ELSE IF api_key = "" THEN Rejected(401)
        ELSE IF fault = "verify" THEN Rejected(500)
        ELSE IF verify(api_keys, api_key) THEN Admitted(None)
        ELSE Rejected(401)

\* auth_middleware of the admin crate: project keys only.
admin_auth_middleware(header, fault) ==
    IF header = None \/ ~starts_with(header[1], "Bearer ") THEN Rejected(401)
    ELSE
    LET api_key == SubSeq(header[1], 8, Len(header[1]))
        project == find_by_api_key(projects, api_key, fault)
    IN  IF fault = "pool" THEN Rejected(500)
        ELSE IF project # None THEN Admitted(<<project[1].id>>)
        ELSE Rejected(401)

\* A request to /ingest passes the middleware of the server; verify stamps
\* the key it finds with the time.
IngestRequest(header, fault) ==
    LET response == auth_middleware(header, fault)
        by_old_key == response.admitted /\ response.project_id = None
                      /\ ~(env.MINI_APM_API_KEY # None
                           /\ header[1] = "Bearer " \o env.MINI_APM_API_KEY[1])
    IN  /\ answer' = response
        /\ api_keys' =
             IF by_old_key
             THEN {IF k.key_hash = hash_key(SubSeq(header[1], 8, Len(header[1])))
                   THEN [k EXCEPT !.last_used_at = <<Rfc3339Text(now)>>] ELSE k
                   : k \in api_keys}
             ELSE api_keys
        /\ UNCHANGED <<store, jobs, input, projects, env, aside>>

\* A request to a route of the admin crate behind its middleware.
AdminRequest(header, fault) ==
    /\ answer' = admin_auth_middleware(header, fault)
    /\ UNCHANGED <<store, jobs, input, projects, api_keys, env, aside>>

(***************************************************************************)
(* The registry alone: projects come and go, keys are regenerated, and     *)
(* requests arrive with any of a few Authorization headers.                *)
(***************************************************************************)
Envs ==
    {[ENABLE_PROJECTS |-> p, MINI_APM_API_KEY |-> k] :
        p \in {None, <<"1">>}, k \in {None, <<"secret">>}}

Names == {"Default", "Shop", "shop!"}
OldDraw == [i \in 1..KeyBytes |-> 171]
OldKey == "mini_apm_k_" \o HexEncode(OldDraw)

\* What a client may present as its key, and the headers it may send.
PresentedKeys ==
    {generate_api_key(bytes) : bytes \in Draws} \cup {"secret", OldKey, "", "wrong_key"}
Headers ==
    {None, <<"Basic xyz">>}
    \cup {<<"Bearer " \o k>> : k \in PresentedKeys}
    \cup {<<k>> : k \in PresentedKeys \ {""}}
    \cup {<<"bearer " \o generate_api_key(bytes)>> : bytes \in Draws}
AuthFaults == {"none", "pool", "query", "verify"}

NextRegistry ==
    \/ \E bytes \in Draws, fault \in {"none", "pool", "insert"} :
         ensure_default_project(bytes, fault)
    \/ \E name \in Names, bytes \in Draws, fault \in {"none", "insert"} :
         create(name, bytes, fault)
    \/ \E id \in 1..MaxProjectId, fault \in {"none", "pool"} : delete(id, fault)
    \/ \E id \in 1..MaxProjectId, bytes \in Draws, fault \in {"none", "pool"} :
         regenerate_api_key(id, bytes, fault)
    \/ api_key_create(OldDraw)
    \/ \E header \in Headers, fault \in AuthFaults : IngestRequest(header, fault)
    \/ \E header \in Headers, fault \in AuthFaults : AdminRequest(header, fault)

SpecRegistry ==
    (\E e \in Envs : InitIn(MaxNow, e)) /\ input = None /\ [][NextRegistry]_vars

\* The projects whose current key the header presents as `Bearer <k>`.
Presenting(header) ==
    {p \in projects : header = <<"Bearer " \o p.api_key>>}

\* What the specification asks of a response, storage working.
ProjectKeyOnly(header, response) ==
    /\ response.admitted <=> Presenting(header) # {}
    /\ response.admitted =>
         \E p \in Presenting(header) : response.project_id = <<p.id>>
    /\ ~response.admitted => response.status = 401

\* C11: whatever projects were created, deleted and re-keyed, a request to
\* /ingest is admitted iff its header is `Bearer <k>` with k the current key
\* of an existing project, and is then attributed to that project; anything
\* else is answered 401, and no environment secret opens the door.
C11_AdmittedIffCurrentProjectKey ==
    \A header \in Headers : ProjectKeyOnly(header, auth_middleware(header, "none"))

\* The same of the middleware of the admin crate, which holds.
AdminAdmitsIffCurrentProjectKey ==
    \A header \in Headers : ProjectKeyOnly(header, admin_auth_middleware(header, "none"))

(***************************************************************************)
(* The span writer on spans of several categories, with and without a      *)
(* parent; a span may be sent again under the same key with another parent.*)
(***************************************************************************)
HttpGet == "http.method" :> "GET"
SpanWeb == SpanOf(OtlpSpan("t1", "ab", "GET /", "1", "2", None), None, <<2>>, HttpGet)
SpanWebChild ==
    SpanOf(OtlpSpan("t1", "cd", "GET /in", "1", "2", None), <<"qw==">>, <<2>>, HttpGet)
SpanWebAgain == SpanOf(SpanWeb, <<"ef">>, <<2>>, HttpGet)
SpanJob == SpanOf(OtlpSpan("t1", "cd", "mail", "1", "2", None), <<"">>, <<5>>, <<>>)
SpanRake == SpanOf(OtlpSpan("t1", "ef", "Rake:db", "1", "2", None), None, None, <<>>)
SpanRakeChild == SpanOf(SpanRake, <<"ab">>, None, <<>>)
SpanSelect ==
    SpanOf(OtlpSpan("t1", "ab", "SELECT", "1", "2", None), None, <<2>>,
           HttpGet @@ ("db.statement" :> "SELECT 1"))
SpanPlain == SpanOf(OtlpSpan("t1", "ef", "work", "1", "2", None), <<"">>, <<1>>, <<>>)

RootSpans ==
    {SpanWeb, SpanWebChild, SpanWebAgain, SpanJob, SpanRake, SpanRakeChild, SpanSelect,
     SpanPlain}
RootBatches ==
    {<<SpanWeb, SpanWebChild>>, <<SpanJob, SpanRake>>, <<SpanWebAgain>>,
     <<SpanSelect, SpanRakeChild>>, <<SpanPlain>>}

NextRoots == IngestSpans({"w1"}, RootBatches)
SpecRoots == InitAt(MaxNow) /\ [][NextRoots]_vars

\* Is the parent_span_id of a request's span absent or empty?
Parentless(otlp_span) ==
    otlp_span.parent_span_id = None \/ otlp_span.parent_span_id[1] = ""

\* The root type the specification gives a stored category.
RootTypeFor(span_category) ==
    CASE span_category = "http_server" -> <<"web">>
      [] span_category = "job" -> <<"job">>
      [] span_category = "command" -> <<"command">>
      [] OTHER -> None

\* C12: a stored span has a root_span_type iff its parent_span_id was absent
\* or empty and its category is http_server, job or command, the type then
\* being web, job or command; a span with a non-empty parent has none.
C12_RootTypeIffParentlessOfRootCategory ==
    /\ \A r \in spans :
          /\ r.root_span_type =
               (IF r.parent_span_id = None THEN RootTypeFor(r.span_category) ELSE None)
          /\ r.parent_span_id # None => r.parent_span_id[1] # ""
    /\ \A otlp_span \in RootSpans :
          LET r == SpanRow(otlp_span, "p1")
          IN  /\ r.parent_span_id = None <=> Parentless(otlp_span)
              /\ r.root_span_type # None <=>
                   (Parentless(otlp_span)
                    /\ r.span_category \in {"http_server", "job", "command"})

\* The store holds a web root, a job root sent with an empty parent, and a
\* command span that lost its root type when it was sent again under a parent.
C12_Witness ==
    /\ \E r \in spans : r.span_id = "ab" /\ r.root_span_type = <<"web">>
    /\ \E r \in spans : r.span_id = "cd" /\ r.root_span_type = <<"job">>
    /\ \E r \in spans :
          r.span_id = "ef" /\ r.span_category = "command" /\ r.root_span_type = None
                           /\ r.parent_span_id = <<"ab">>

(***************************************************************************)
(* Reading a trace back (models/span.rs, get_trace).                       *)
(***************************************************************************)
\* parent_map: for each span_id of the rows, the parent_span_id of its row.
ParentMap(rows) ==
    [span_id \in {r.span_id : r \in rows} |->
        (CHOOSE r \in rows : r.span_id = span_id).parent_span_id]

\* compute_depth, the cache left out: Some(depth), or None when the recursion
\* does not end within `stack` frames (the thread's stack is exhausted).
RECURSIVE compute_depth(_, _, _)
compute_depth(span_id, parent_map, stack) ==
    IF stack = 0 THEN None
    ELSE IF span_id \notin DOMAIN parent_map \/ parent_map[span_id] = None THEN <<0>>
    ELSE LET above == compute_depth(parent_map[span_id][1], parent_map, stack - 1)
         IN  IF above = None THEN None ELSE <<above[1] + 1>>

\* get_trace: Ok(None) for a trace without rows, else the records of its
\* spans with their depths; "overflow" when compute_depth does not return.
get_trace(table, trace_id) ==
    LET rows == {r \in table : r.trace_id = trace_id}
        parent_map == ParentMap(rows)
        depth(r) == compute_depth(r.span_id, parent_map, Cardinality(rows) + 2)
    IN  IF rows = {} THEN [result |-> "none"]
        ELSE IF \E r \in rows : depth(r) = None THEN [result |-> "overflow"]
        ELSE [result |-> "trace",
              spans |-> {[span_id |-> r.span_id, parent_span_id |-> r.parent_span_id,
                          depth |-> depth(r)[1]] : r \in rows}]

\* GET /traces/:id reads the trace.
GetTrace(trace_id) ==
    /\ answer' = [op |-> "get_trace"] @@ get_trace(spans, trace_id)
    /\ UNCHANGED <<store, jobs, input, projects, api_keys, env, aside>>

NextTraces == IngestSpans({"w1"}, RootBatches) \/ GetTrace("t1")
SpecTraces == InitAt(MaxNow) /\ [][NextTraces]_vars

\* The record of the parent of a record, if the trace has it.
ParentIn(trace, d) ==
    {q \in trace : d.parent_span_id # None /\ q.span_id = d.parent_span_id[1]}

\* C13: in what get_trace returns, a span whose parent_span_id names a span
\* of the trace is one deeper than that span, and every other span (no
\* parent, or a parent that is not in the trace) has depth 0.
C13_DepthIsParentDepthPlusOneElseZero ==
    LET detail == get_trace(spans, "t1")
    IN  detail.result = "trace" =>
            \A d \in detail.spans :
                /\ \A q \in ParentIn(detail.spans, d) : d.depth = q.depth + 1
                /\ ParentIn(detail.spans, d) = {} => d.depth = 0

(***************************************************************************)
(* N+1 detection (models/span.rs): normalize_sql and detect_n_plus_1.      *)
(***************************************************************************)
N_PLUS_1_THRESHOLD == 5

Digits == {"0", "1", "2", "3", "4", "5", "6", "7", "8", "9"}
Quotes == {"'", "\""}

\* char::is_whitespace on the characters of the model.
WhiteSpace == {" ", "\t", "\n"}

At(text, i) == SubSeq(text, i, i)
ends_with(text, c) == Len(text) > 0 /\ At(text, Len(text)) = c

\* The index past the digits and dots that follow position i.
RECURSIVE PastNumber(_, _)
PastNumber(sql, i) ==
    IF i <= Len(sql) /\ At(sql, i) \in Digits \cup {"."} THEN PastNumber(sql, i + 1)
    ELSE i

\* Is a digit here taken for a value?  result is what was written so far.
AfterSeparator(result) ==
    \/ ends_with(result, " ") \/ ends_with(result, "=") \/ ends_with(result, "(")
    \/ ends_with(result, ",") \/ Len(result) = 0

\* A variant that takes a digit for a value after any white space.
AfterAnyWhiteSpace(result) ==
    \/ \E c \in WhiteSpace : ends_with(result, c)
    \/ ends_with(result, "=") \/ ends_with(result, "(")
    \/ ends_with(result, ",") \/ Len(result) = 0

\* The loop of normalize_sql from position i on.
RECURSIVE Scan(_, _, _, _, _)
Scan(sql, i, result, in_string, string_char) ==
    IF i > Len(sql) THEN result
    ELSE
    LET c == At(sql, i)
        peek == IF i < Len(sql) THEN At(sql, i + 1) ELSE ""
    IN  IF in_string THEN
            IF c = string_char /\ peek # string_char
            THEN Scan(sql, i + 1, result \o "?", FALSE, string_char)
            ELSE IF c = string_char /\ peek = string_char
            THEN Scan(sql, i + 2, result, TRUE, string_char)
            ELSE Scan(sql, i + 1, result, TRUE, string_char)
        ELSE IF c \in Quotes THEN Scan(sql, i + 1, result, TRUE, c)
        ELSE IF c \in Digits /\ AfterSeparator(result)
        THEN Scan(sql, PastNumber(sql, i + 1), result \o "?", FALSE, string_char)
        ELSE Scan(sql, i + 1, result \o c, FALSE, string_char)

\* split_whitespace().join(" ") from position i on; pending: a word was
\* written and white space was seen since.
RECURSIVE JoinWords(_, _, _, _)
JoinWords(text, i, joined, pending) ==
    IF i > Len(text) THEN joined
    ELSE IF At(text, i) \in WhiteSpace
    THEN JoinWords(text, i + 1, joined, Len(joined) > 0)
    ELSE JoinWords(text, i + 1,
                   (IF pending THEN joined \o " " ELSE joined) \o At(text, i), FALSE)

normalize_sql(sql) == JoinWords(Scan(sql, 1, "", FALSE, " "), 1, "", FALSE)

\* A record of get_trace as detect_n_plus_1 reads it.
SpanDisplay(span_id, category, db_statement) ==
    [span_id |-> span_id, category |-> category, db_statement |-> db_statement]

\* The positions of the spans that detect_n_plus_1 counts under a pattern.
Counted(trace, pattern) ==
    {i \in 1..Len(trace) :
        /\ trace[i].category = "Db"
        /\ trace[i].db_statement # None
        /\ normalize_sql(trace[i].db_statement[1]) = pattern}

RECURSIVE InOrder(_, _, _)
InOrder(trace, positions, i) ==
    IF i > Len(trace) THEN <<>>
    ELSE (IF i \in positions THEN <<trace[i].span_id>> ELSE <<>>)
         \o InOrder(trace, positions, i + 1)

\* A variant of the filter that wants more than the threshold.
ReportedAbove(count) == count > N_PLUS_1_THRESHOLD

\* .filter(|(_, (count, _, _))| *count >= N_PLUS_1_THRESHOLD)
Reported(count) == count >= N_PLUS_1_THRESHOLD

\* The issues of a trace, before they are sorted.
Issues(trace) ==
    LET patterns == {normalize_sql(trace[i].db_statement[1]) :
                        i \in {k \in 1..Len(trace) :
                                 trace[k].category = "Db" /\ trace[k].db_statement # None}}
    IN  {[pattern |-> pattern, count |-> Cardinality(Counted(trace, pattern)),
          span_ids |-> InOrder(trace, Counted(trace, pattern), 1)] :
            pattern \in {q \in patterns : Reported(Cardinality(Counted(trace, q)))}}

\* detect_n_plus_1: the issues in an order sort_by(b.count.cmp(a.count)) may
\* leave them in; the map they come from has no order of its own.
detect_n_plus_1(trace) ==
    LET issues == Issues(trace)
        n == Cardinality(issues)
    IN  {order \in [1..n -> issues] :
            /\ \A i, j \in 1..n : i # j => order[i] # order[j]
            /\ \A i \in 1..n : \A j \in 1..n : i < j => order[i].count >= order[j].count}

DetectNPlus1 ==
    /\ input # None
    /\ \E order \in detect_n_plus_1(input[1]) :
          answer' = [op |-> "detect_n_plus_1", issues |-> order]
    /\ UNCHANGED <<store, jobs, projects, api_keys, env, input, aside>>

\* Traces of a spans with the pattern "id = ?", b with the pattern "x = ?",
\* c with the pattern "y = ?", then five view spans with a statement and five
\* db spans without.
Statement(kind, i) ==
    CASE kind = "id" -> IF i % 2 = 1 THEN "id = 1" ELSE "id =  22"
      [] kind = "x" -> IF i % 2 = 1 THEN "x = 'a'" ELSE "x = \"it''s\""
      [] kind = "y" -> "y = 1.5"
Trace(a, b, c) ==
    [i \in 1..a |-> SpanDisplay("id" \o ToString(i), "Db", <<Statement("id", i)>>)]
    \o [i \in 1..b |-> SpanDisplay("x" \o ToString(i), "Db", <<Statement("x", i)>>)]
    \o [i \in 1..c |-> SpanDisplay("y" \o ToString(i), "Db", <<Statement("y", i)>>)]
    \o [i \in 1..N_PLUS_1_THRESHOLD |->
          SpanDisplay("v" \o ToString(i), "View", <<Statement("id", i)>>)]
    \o [i \in 1..N_PLUS_1_THRESHOLD |-> SpanDisplay("n" \o ToString(i), "Db", None)]
Traces == {Trace(a, b, c) : a \in 0..MaxSame, b \in 3..MaxSame, c \in 4..MaxSame}

SpecDetect == InitOn({<<trace>> : trace \in Traces}) /\ [][DetectNPlus1]_vars

\* The db spans of a trace whose statement normalizes to the pattern.
SpansOfPattern(trace, pattern) ==
    {trace[i].span_id : i \in Counted(trace, pattern)}

\* C14: detect_n_plus_1 reports a pattern iff at least 5 db spans of the
\* trace normalize to it; an issue's count is the number of those spans and
\* its span_ids are those spans; the issues come by count, largest first.
C14_IssueIffFiveSpansOfPattern ==
    answer.op = "detect_n_plus_1" =>
        LET trace == input[1]
            issues == answer.issues
            patterns == {normalize_sql(trace[i].db_statement[1]) :
                            i \in {k \in 1..Len(trace) : trace[k].db_statement # None}}
        IN  /\ \A pattern \in patterns :
                  (\E k \in 1..Len(issues) : issues[k].pattern = pattern)
                  <=> Cardinality(SpansOfPattern(trace, pattern)) >= 5
            /\ \A k \in 1..Len(issues) :
                  /\ issues[k].pattern \in patterns
                  /\ issues[k].count = Cardinality(SpansOfPattern(trace, issues[k].pattern))
                  /\ Len(issues[k].span_ids) = issues[k].count
                  /\ {issues[k].span_ids[i] : i \in 1..issues[k].count}
                       = SpansOfPattern(trace, issues[k].pattern)
                  /\ \A j \in 1..Len(issues) : j # k => issues[j].pattern # issues[k].pattern
            /\ \A k \in 1..(Len(issues) - 1) : issues[k].count >= issues[k + 1].count

\* A trace with six spans of one pattern, five of another and four of a third
\* was read: two issues, the one of six first, the pattern of four left out.
C14_Witness ==
    /\ answer.op = "detect_n_plus_1"
    /\ input = <<Trace(5, 6, 4)>>
    /\ Len(answer.issues) = 2
    /\ answer.issues[1].pattern = "x = ?" /\ answer.issues[1].count = 6
    /\ answer.issues[2].pattern = "id = ?" /\ answer.issues[2].count = 5

(***************************************************************************)
(* normalize_sql applied to short texts, and again to what it returned.    *)
(***************************************************************************)
SqlAlphabet == {"a", "1", ".", "'", "\"", "=", "(", ",", " ", "\t", "\n"}

RECURSIVE SqlTexts(_)
SqlTexts(n) ==
    IF n = 0 THEN {""}
    ELSE LET shorter == SqlTexts(n - 1)
         IN  shorter \cup {text \o c : text \in shorter, c \in SqlAlphabet}

\* The text at hand is replaced by its normal form.
Normalize ==
    /\ input' = <<normalize_sql(input[1])>>
    /\ answer' = [op |-> "normalize_sql", of |-> input[1]]
    /\ UNCHANGED <<store, jobs, projects, api_keys, env, aside>>

SpecNormalize == InitOn({<<sql>> : sql \in SqlTexts(MaxSql)}) /\ [][Normalize]_vars

\* C15: normalize_sql is idempotent: what it returns, over letters, digits,
\* dots, both quotes, '=', '(', ',' and any white space, is left as it is by
\* a second application.
C15_NormalizeIsIdempotent ==
    answer.op = "normalize_sql" => normalize_sql(input[1]) = input[1]

(***************************************************************************)
(* The periodic jobs (jobs/mod.rs): four tasks, each a loop around an      *)
(* interval; the work of a tick returns Ok or Err.                         *)
(***************************************************************************)
\* A loop that leaves on an Err, as `?` would make it.
LoopEndsOnErr(ok) == ok

\* `loop { interval.tick().await; if let Err(e) = work() { error!(..) } }`:
\* whatever the work returned, the loop goes round.
LoopGoesOn(ok) == TRUE

\* The period of a job's interval has passed: its next tick is there.
IntervalElapsed(j) ==
    /\ ~jobs[j].pending
    /\ jobs' = [jobs EXCEPT ![j].pending = TRUE]
    /\ UNCHANGED <<store, projects, api_keys, env, answer, input, aside>>

\* The task takes the tick and its work has run, with the given result.
AfterTick(j, ok) ==
    [jobs EXCEPT ![j] = [pending |-> FALSE, alive |-> LoopGoesOn(ok),
                         last |-> IF ok THEN "ok" ELSE "err",
                         again |-> jobs[j].again \/ jobs[j].last = "err"]]

\* One round of the loop of a job other than retention; the tables its work
\* reads and writes are not among those of the model.
JobTick(j, ok) ==
    /\ j # "retention"
    /\ jobs[j].alive /\ jobs[j].pending
    /\ jobs' = AfterTick(j, ok)
    /\ UNCHANGED <<store, projects, api_keys, env, answer, input, aside>>

\* One round of the loop of the retention job: cleanup, and its Err logged.
RetentionJobTick(fault, sunday) ==
    /\ jobs["retention"].alive /\ jobs["retention"].pending
    /\ RetentionWork(fault, sunday)
    /\ jobs' = AfterTick("retention", last'.ok)
    /\ UNCHANGED <<projects, api_keys, env, answer, input, aside>>

Round(j) ==
    \/ \E ok \in BOOLEAN : JobTick(j, ok)
    \/ j = "retention" /\ \E fault \in {"none", "spans", "vacuum"} :
                             RetentionJobTick(fault, FALSE)

NextJobs == \E j \in Jobs : IntervalElapsed(j) \/ Round(j)

SpecJobs == InitAt(MaxNow) /\ [][NextJobs]_vars

\* The runtime gives every task that can run a turn.
SpecJobsFair == SpecJobs /\ \A j \in Jobs : WF_vars(Round(j))

\* C16: a tick whose work fails only logs the error: the loop of the job is
\* still running, the job runs again on its next tick, and this whatever the
\* other jobs do or fail to do.
C16_FailedTickIsFollowedByTheNext ==
    \A j \in Jobs :
        /\ [](jobs[j].alive)
        /\ (jobs[j].last = "err" /\ jobs[j].pending) ~> (jobs[j].again /\ ~jobs[j].pending)

\* Every job has failed on a tick and has run on a later one; the retention
\* job is failing again while the others succeeded.
C16_Witness ==
    /\ \A j \in Jobs : jobs[j].again /\ jobs[j].alive
    /\ jobs["retention"].last = "err"
    /\ \A j \in Jobs \ {"retention"} : jobs[j].last = "ok"

\* A text of the form proj_ followed by 48 hexadecimal digits.
IsProjectKey(text) ==
    /\ Len(text) = 5 + 48
    /\ SubSeq(text, 1, 5) = "proj_"
    /\ \A i \in 6..Len(text) : \E k \in 1..Len(HexDigit) : At(text, i) = HexDigit[k]

\* C17: ensure_default_project creates a project, its key proj_ and 48 hex
\* digits, only when there is none; when there is one it creates nothing and
\* returns a project of the table; a call that follows another adds no project
\* and returns the same project.
C17_EnsureCreatesOnlyWhenEmpty ==
    \A bytes \in Draws, fault \in {"none", "pool", "insert"} :
        LET first == EnsureOutcome(projects, bytes, fault)
        IN  /\ projects # {} => first.projects = projects
            /\ projects # {} /\ first.ok => first.project[1] \in projects
            /\ projects = {} /\ first.ok =>
                  /\ first.projects = {first.project[1]}
                  /\ IsProjectKey(first.project[1].api_key)
            /\ ~first.ok => first.projects = projects
            /\ first.ok =>
                  \A more \in Draws :
                      LET second == EnsureOutcome(first.projects, more, "none")
                      IN  /\ second.projects = first.projects
                          /\ second.project = first.project

\* ensure_default_project was called on a table of two projects, the first of
\* which had been deleted before: it answered with the project of id 2.
C17_Witness ==
    /\ answer.op = "ensure" /\ answer.ok
    /\ Cardinality(projects) = 2
    /\ answer.project[1] \in projects
    /\ answer.project[1].id = 2
    /\ IsProjectKey(answer.project[1].api_key)

(***************************************************************************)
(* Latency percentiles (models/span.rs, latency_stats_since and            *)
(* calculate_route_percentiles).  A duration is a whole number of parts of *)
(* a millisecond, PerMs of them to the millisecond.                        *)
(***************************************************************************)
\* f64::round of x = a / b for a >= 0, b > 0: halves go away from zero.
RoundDiv(a, b) == (2 * a + b) \div (2 * b)

Min(a, b) == IF a <= b THEN a ELSE b

\* The nearest-rank index: q per cent of n, not of n - 1.
NearestRankIndex(n, q) == Min((q * n) \div 100, n - 1)

\* ((q * (len - 1)).round() as usize).min(len - 1), q given in per cent.
PercentileIndex(n, q) == Min(RoundDiv(q * (n - 1), 100), n - 1)

\* ORDER BY duration_ms ASC
Ascending(values) == SortSeq(values, LAMBDA a, b : a < b)

RECURSIVE Sum(_)
Sum(values) == IF Len(values) = 0 THEN 0 ELSE Head(values) + Sum(Tail(values))

\* latency_stats_since on the durations of the root spans of the window.
latency_stats_since(durations) ==
    LET values == Ascending(durations)
        n == Len(values)
    IN  IF n = 0 THEN [avg_ms |-> 0, p95_ms |-> 0, p99_ms |-> 0]
        ELSE [avg_ms |-> RoundDiv(Sum(values), n * PerMs),
              p95_ms |-> RoundDiv(values[PercentileIndex(n, 95) + 1], PerMs),
              p99_ms |-> RoundDiv(values[PercentileIndex(n, 99) + 1], PerMs)]

LatencyStats ==
    /\ answer' = [op |-> "latency_stats_since"] @@ latency_stats_since(input[1])
    /\ UNCHANGED <<store, jobs, projects, api_keys, env, input, aside>>

\* The durations 1, 2, ..., n ms, each longer by `part` parts, as the spans
\* table holds them: in any order, here the ascending and the descending one.
Upward(n, part) == [i \in 1..n |-> i * PerMs + part]
Downward(n, part) == [i \in 1..n |-> (n + 1 - i) * PerMs + part]
DurationLists ==
    {Upward(n, part) : n \in 0..MaxValues, part \in 0..(PerMs - 1)}
    \cup {Downward(n, part) : n \in 0..MaxValues, part \in 0..(PerMs - 1)}

SpecLatency == InitOn({<<durations>> : durations \in DurationLists}) /\ [][LatencyStats]_vars

\* Is i the whole number nearest to q per cent of m, halves going up?
NearestTo(i, q, m) == 100 * i - 50 <= q * m /\ q * m < 100 * i + 50

\* Is ms the duration, in parts, rounded to the millisecond?
RoundedTo(ms, duration) ==
    2 * PerMs * ms - PerMs <= 2 * duration /\ 2 * duration < 2 * PerMs * ms + PerMs

\* Is p the percentile q of the durations: the element at the 0-based index
\* round(q (n - 1)), no further than n - 1, of the ascending list, rounded to
\* the millisecond?
IsPercentile(p, q, durations) ==
    LET values == Ascending(durations)
        n == Len(values)
    IN  \E i \in 0..(n - 1) :
            /\ NearestTo(i, q, n - 1) \/ (i = n - 1 /\ q * (n - 1) >= 100 * i + 50)
            /\ RoundedTo(p, values[i + 1])

\* The percentiles answered are those of the rule.
PercentilesByRule ==
    answer.op = "latency_stats_since" /\ Len(input[1]) > 0 =>
        /\ IsPercentile(answer.p95_ms, 95, input[1])
        /\ IsPercentile(answer.p99_ms, 99, input[1])

\* C18, as stated: percentiles are the element at the 0-based index
\* round(q (n - 1)), at most n - 1, of the ascending durations; for the
\* durations 1, 2, ..., 100 ms this gives p95 = 96 and p99 = 99.
C18_PercentilesOfOneToHundred ==
    /\ PercentilesByRule
    /\ (answer.op = "latency_stats_since" /\ input[1] = Upward(100, 0)) =>
           (answer.p95_ms = 96 /\ answer.p99_ms = 99)

\* C18, amended: the same rule, which for the durations 1, 2, ..., 100 ms
\* gives p95 = 95 (index round(94.05) = 94) and p99 = 99 (index 98).
C18_PercentilesOfOneToHundredAre95And99 ==
    /\ PercentilesByRule
    /\ (answer.op = "latency_stats_since"
        /\ input[1] \in {Upward(100, 0), Downward(100, 0)}) =>
           (answer.p95_ms = 95 /\ answer.p99_ms = 99)

\* The percentiles of the durations 1, 2, ..., 100 ms have been answered.
C18_Witness ==
    /\ answer.op = "latency_stats_since"
    /\ input[1] = Upward(100, 0)
    /\ answer.p95_ms = 95 /\ answer.p99_ms = 99

(***************************************************************************)
(* The span classifier on its own, over names, kinds and attribute maps    *)
(* that meet every rule and several rules at once.                         *)
(***************************************************************************)
SpanNames ==
    {"SELECT users", "GET /users", "render_template users/index.html.erb",
     "render_partial _header", "render_collection x", "show.haml", "a.slim b",
     "ActionView", "MyJob.perform", "Sidekiq", "ActiveJob run", "active_job",
     "rake db:migrate", "Rake:db", "a Rake::Task", "thor:generate:model", "make:all",
     "remake:all", "work", ""}
SpanKinds == 0..5
AttributeMaps ==
    {<<>>,
     "db.system" :> "postgresql",
     "db.system" :> "elasticsearch",
     ("db.system" :> "opensearch") @@ ("http.method" :> "GET"),
     "db.statement" :> "SELECT 1",
     ("db.statement" :> "{}") @@ ("db.system" :> "elasticsearch"),
     ("db.statement" :> "SELECT 1") @@ ("url.full" :> "http://x/")
        @@ ("messaging.system" :> "kafka"),
     "http.method" :> "GET",
     "http.url" :> "http://x/",
     "url.full" :> "http://x/",
     "http.request.method" :> "GET",
     ("http.method" :> "GET") @@ ("messaging.system" :> "kafka"),
     "messaging.system" :> "kafka",
     "messaging.destination.name" :> "q",
     "http.target" :> "/"}

Classify ==
    /\ answer' = [op |-> "from_attributes",
                  category |-> from_attributes(input[1].name, input[1].kind,
                                               input[1].attributes)]
    /\ UNCHANGED <<store, jobs, projects, api_keys, env, input, aside>>

SpecClassify ==
    InitOn({<<[name |-> name, kind |-> kind, attributes |-> attributes]>> :
               name \in SpanNames, kind \in SpanKinds, attributes \in AttributeMaps})
    /\ [][Classify]_vars

\* The rules of the specification, in their order: does the span meet rule k?
Has(span, keys) == \E key \in keys : key \in DOMAIN span.attributes
BeginsWith(text, prefixes) == \E prefix \in prefixes : name_starts_with(text, prefix)
Holds(text, pieces) == \E piece \in pieces : contains(text, piece)
Meets(span, k) ==
    LET http == Has(span, {"http.url", "http.method", "url.full", "http.request.method"})
        lower == to_lowercase(span.name)
    IN  CASE k = 1 -> Has(span, {"db.system"})
                      /\ span.attributes["db.system"] \in {"elasticsearch", "opensearch"}
          [] k = 2 -> Has(span, {"db.system", "db.statement"})
          [] k = 3 -> http /\ span.kind = 3
          [] k = 4 -> http /\ span.kind = 2
          [] k = 5 -> \/ BeginsWith(span.name, {"render_template", "render_partial",
                                                "render_collection"})
                      \/ Holds(span.name, {".erb", ".haml", ".slim", "ActionView"})
          [] k = 6 -> span.kind \in {4, 5}
                      \/ Has(span, {"messaging.system", "messaging.destination.name"})
          [] k = 7 -> Holds(lower, {"sidekiq", "activejob", "active_job", "perform"})
          [] k = 8 -> BeginsWith(lower, {"rake:", "rake ", "thor:", "make:"})
                      \/ Holds(lower, {"rake::task"})
          [] k = 9 -> TRUE
RuleCategory ==
    <<"Search", "Db", "HttpClient", "HttpServer", "View", "Job", "Job", "Command",
      "Internal">>
FirstRule(span) == CHOOSE k \in 1..9 : Meets(span, k) /\ \A j \in 1..(k - 1) : ~Meets(span, j)

\* C19: the classifier gives every span the category of the first rule it
\* meets, in the order db attributes (search or db), HTTP attributes with
\* kind 3 or 2, view names, job by kind or messaging attributes, job by
\* name, command by name, else internal.  So a span with db.system or
\* db.statement is db or search whatever else it has, and a span with HTTP
\* attributes of a kind other than 2 and 3 is classified as it would be
\* without them.
C19_FirstMatchingRuleWins ==
    answer.op = "from_attributes" =>
        LET span == input[1]
            http_keys == {"http.url", "http.method", "url.full", "http.request.method"}
            bare == [key \in DOMAIN span.attributes \ http_keys |-> span.attributes[key]]
        IN  /\ answer.category = RuleCategory[FirstRule(span)]
            /\ Has(span, {"db.system", "db.statement"}) => answer.category \in {"Db", "Search"}
            /\ (Has(span, http_keys) /\ span.kind \notin {2, 3}) =>
                  answer.category = from_attributes(span.name, span.kind, bare)

\* A server span (kind 2) named like a view, with a db.statement, a URL and a
\* messaging attribute, was classified: db.
C19_Witness ==
    /\ answer.op = "from_attributes"
    /\ answer.category = "Db"
    /\ input[1].kind = 2
    /\ input[1].name = "render_template users/index.html.erb"
    /\ DOMAIN input[1].attributes = {"db.statement", "url.full", "messaging.system"}

(***************************************************************************)
(* The first and the last sighting of an error group.                      *)
(***************************************************************************)
\* C20: whatever errors were inserted, with a timestamp of the caller or
\* with the time of the insert, in or out of chronological order, every
\* group was last seen no earlier than it was first seen.
C20_LastSeenNotBeforeFirstSeen ==
    \A g \in errors : InstantOf(g.last_seen_at) >= InstantOf(g.first_seen_at)

(***************************************************************************)
(* The connections of the pool (db.rs, init) while spans are ingested:     *)
(* insert_otlp_batch and, under it, extract_and_insert_errors and insert,  *)
(* followed call by call.  What the calls write is in IngestSpans; here is *)
(* what they hold.  The rest of the program (pages, jobs, other endpoints) *)
(* takes and returns connections of the same pool.                         *)
(***************************************************************************)
\* Pool::builder().max_size(10)
max_size == 10

\* Connections nobody holds.
Free(p) ==
    LET RECURSIVE Held(_)
        Held(W) == IF W = {} THEN 0
                   ELSE LET w == CHOOSE w \in W : TRUE
                        IN  p.of[w].held + Held(W \ {w})
    IN  max_size - p.others - Held(Workers)

\* Nothing but the pool changes in this part.
PoolOnly ==
    UNCHANGED <<store, projects, api_keys, env, answer, input, jobs, racing, requests,
                rollups_daily>>

\* A worker inside insert_otlp_batch: the batch, the span and the event it is at.
Serving(batch) == [held |-> 0, at |-> "get", batch |-> batch, i |-> 1, j |-> 1]

\* The request arrives and calls insert_otlp_batch.
PoolArrive(w, batch) ==
    /\ pool.of[w].at = "idle"
    /\ pool' = [pool EXCEPT !.of[w] = Serving(batch)]
    /\ PoolOnly

\* let conn = pool.get()?; at the head of insert_otlp_batch: a connection
\* when one is free, Err after the time-out when none is.
PoolGet(w) ==
    /\ pool.of[w].at = "get"
    /\ pool' = IF Free(pool) > 0
               THEN [pool EXCEPT !.of[w].held = 1, !.of[w].at = "span"]
               ELSE [pool EXCEPT !.of[w] = Released]
    /\ PoolOnly

\* The head of the loop: Ok(count) after the last span, dropping conn; Err
\* (dropping conn) on a timestamp that is no number; else the row is written
\* and extract_and_insert_errors is called, conn still alive.
PoolSpan(w) ==
    LET me == pool.of[w]
    IN  /\ me.at = "span"
        /\ pool' = IF me.i > Len(me.batch) \/ ~WellFormed(me.batch[me.i])
                   THEN [pool EXCEPT !.of[w] = Released]
                   ELSE [pool EXCEPT !.of[w].at = "events", !.of[w].j = 1]
        /\ PoolOnly

\* The loop of extract_and_insert_errors: back to the caller after the last
\* event, the next event after one that is no exception, else insert is called.
PoolEvent(w) ==
    LET me == pool.of[w]
        events == IF me.batch[me.i].events = None THEN <<>> ELSE me.batch[me.i].events[1]
    IN  /\ me.at = "events"
        /\ pool' = IF me.j > Len(events)
                   THEN [pool EXCEPT !.of[w].at = "span", !.of[w].i = @ + 1]
                   ELSE IF ~IsException(events[me.j])
                   THEN [pool EXCEPT !.of[w].j = @ + 1]
                   ELSE [pool EXCEPT !.of[w].at = "insert"]
        /\ PoolOnly

\* let conn = pool.get()?; at the head of insert: one more connection when
\* one is free; when none is, Err after the time-out, which the caller logs.
InsertGet(p, w) ==
    IF Free(p) > 0
    THEN [p EXCEPT !.of[w].held = @ + 1, !.of[w].at = "inserted"]
    ELSE [p EXCEPT !.of[w].at = "events", !.of[w].j = @ + 1]

PoolInsert(w) ==
    /\ pool.of[w].at = "insert"
    /\ pool' = InsertGet(pool, w)
    /\ PoolOnly

\* insert returns, dropping the connection it took.
PoolInserted(w) ==
    LET me == pool.of[w]
    IN  /\ me.at = "inserted"
        /\ pool' = [pool EXCEPT !.of[w].held = @ - 1,
                                !.of[w].at = "events", !.of[w].j = @ + 1]
        /\ PoolOnly

\* Another part of the program takes a connection, or returns one.
PoolOthers ==
    /\ \/ Free(pool) > 0 /\ pool' = [pool EXCEPT !.others = @ + 1]
       \/ pool.others > 0 /\ pool' = [pool EXCEPT !.others = @ - 1]
    /\ PoolOnly

PoolBatches == {<<SpanAb>>, <<SpanRaising, SpanCd>>, <<SpanLogging, SpanBadEnd>>}

NextPool ==
    \/ \E w \in Workers :
          \/ \E batch \in PoolBatches : PoolArrive(w, batch)
          \/ PoolGet(w)
          \/ PoolSpan(w)
          \/ PoolEvent(w)
          \/ PoolInsert(w)
          \/ PoolInserted(w)
    \/ PoolOthers

SpecPool == InitAt(MaxNow) /\ [][NextPool]_vars

\* C22: while it ingests a batch a request holds at most one connection of
\* the pool, and asks for none while it holds one: a connection is asked
\* for only at the head of insert_otlp_batch.
C22_IngestHoldsOneConnection ==
    \A w \in Workers :
        /\ pool.of[w].held <= 1
        /\ pool.of[w].at = "insert" => pool.of[w].held = 0

(***************************************************************************)
(* The span writer on spans whose end is before, at or after their start.  *)
(***************************************************************************)
SpanInstant == OtlpSpan("t1", "cd", "c", "3", "3", None)
SpanBackwards == OtlpSpan("t1", "ef", "e", "5", "4", None)

TimeBatches == {<<SpanAb, SpanBackwards>>, <<SpanInstant>>, <<SpanBackwards, SpanBadEnd>>}

NextTimes == IngestSpans(Workers, TimeBatches)
SpecTimes == InitAt(MaxNow) /\ [][NextTimes]_vars

\* C21: every stored span ends no earlier than it starts (its end
\* nanosecond is at least its start nanosecond, so its duration is not
\* negative), whatever batches the ingestion accepted: here, every stored
\* row that is a span of a batch answered with 202.
C21_StoredSpanStartsBeforeItEnds ==
    \A r \in spans :
        (\E w \in Workers :
            /\ inflight[w].state = "done"
            /\ inflight[w].status = 202
            /\ \E k \in 1..Len(inflight[w].batch) :
                  r = SpanRow(inflight[w].batch[k], inflight[w].project_id))
        => r.start_time_unix_nano <= r.end_time_unix_nano

(***************************************************************************)
(* insert (models/error.rs) statement by statement: two calls at once, on  *)
(* two connections, no transaction around the statements of a call.  A     *)
(* client whose call failed sends the error again.                         *)
(***************************************************************************)
\* A call at its first statement.  `blind`: the lookups of this call saw no
\* group of its location fingerprint; `lost`: such a call then failed on the
\* UNIQUE constraint, another call having created the group in between.
Calling(error, project_id, tries, lost) ==
    [at |-> "exact", error |-> error, project_id |-> project_id,
     timestamp |-> TimestampOf(error, now), id |-> 0, path |-> "none",
     tries |-> tries, blind |-> FALSE, lost |-> lost]

LocationOfCall(call) ==
    generate_location_fingerprint(call.error.exception_class, call.error.backtrace)

RaceOnly ==
    UNCHANGED <<now, spans, rollups_hourly, deploys, gone, latest, last, ebatch, inflight,
                projects, api_keys, env, answer, input, jobs, pool, requests,
                rollups_daily>>

\* The client sends the error; after a call that failed, it sends it again.
RaceCall(c, error, project_id) ==
    /\ \/ racing[c].at = "idle" /\ racing' = [racing EXCEPT ![c] =
                                                Calling(error, project_id, 1, FALSE)]
       \/ /\ racing[c].at = "failed"
          /\ racing[c].tries < MaxTries
          /\ racing' = [racing EXCEPT ![c] =
                          Calling(racing[c].error, racing[c].project_id,
                                  racing[c].tries + 1, racing[c].lost)]
    /\ UNCHANGED <<errors, occurrences>>
    /\ RaceOnly

\* SELECT id FROM errors WHERE fingerprint = ?1 AND <project>
RaceExact(c) ==
    LET call == racing[c]
        existing == ExactMatches(errors, call.error, call.project_id, "none")
    IN  /\ call.at = "exact"
        /\ \/ /\ existing = {}
              /\ racing' = [racing EXCEPT ![c].at = "similar"]
           \/ \E id \in existing :
                 racing' = [racing EXCEPT ![c].at = "update", ![c].id = id,
                                          ![c].path = "exact"]
        /\ UNCHANGED <<errors, occurrences>>
        /\ RaceOnly

\* find_similar_error(&conn, project_id, &location_fingerprint, &error.message)
RaceSimilar(c) ==
    LET call == racing[c]
        similar_error ==
            find_similar_error(errors, call.project_id, LocationOfCall(call),
                               call.error.message)
    IN  /\ call.at = "similar"
        /\ \/ /\ similar_error = {}
              /\ racing' =
                   [racing EXCEPT ![c].at = "create",
                                  ![c].blind =
                                     ~\E g \in errors :
                                         /\ ProjectMatch(g, call.project_id)
                                         /\ g.fingerprint = LocationOfCall(call)]
           \/ \E id \in similar_error :
                 racing' = [racing EXCEPT ![c].at = "update", ![c].id = id,
                                          ![c].path = "similar"]
        /\ UNCHANGED <<errors, occurrences>>
        /\ RaceOnly

\* UPDATE errors SET last_seen_at = ?1, occurrence_count = occurrence_count + 1
RaceUpdate(c) ==
    LET call == racing[c]
    IN  /\ call.at = "update"
        /\ errors' = UpdateSeen(errors, call.id, call.timestamp)
        /\ racing' = [racing EXCEPT ![c].at = "occurrence"]
        /\ UNCHANGED occurrences
        /\ RaceOnly

\* INSERT INTO errors (...): Err on UNIQUE(project_id, fingerprint), `?` returns it.
RaceCreate(c) ==
    LET call == racing[c]
        id == NewRowId(errors)
    IN  /\ call.at = "create"
        /\ IF UniqueViolation(errors, call.project_id, LocationOfCall(call))
           THEN /\ racing' = [racing EXCEPT ![c].at = "failed",
                                            ![c].lost = @ \/ call.blind]
                /\ UNCHANGED errors
           ELSE /\ errors' = errors \cup {NewGroup(id, call.project_id, LocationOfCall(call),
                                                   call.error, call.timestamp)}
                /\ racing' = [racing EXCEPT ![c].at = "occurrence", ![c].id = id,
                                            ![c].path = "new"]
        /\ UNCHANGED occurrences
        /\ RaceOnly

\* INSERT INTO error_occurrences (...), then Ok(error_id).
RaceOccurrence(c) ==
    LET call == racing[c]
    IN  /\ call.at = "occurrence"
        /\ occurrences' =
             occurrences \cup
               {OccurrenceRow(NewRowId(occurrences), call.id, call.error, call.timestamp)}
        /\ racing' = [racing EXCEPT ![c].at = "ok"]
        /\ UNCHANGED errors
        /\ RaceOnly

\* The errors of the racing calls: one class, one location, three messages.
RaceInputs == {e \in ErrorInputs : e.fingerprint \in {"f1", "f2", "f3"}}

NextRace ==
    \E c \in Callers :
        \/ \E error \in RaceInputs : RaceCall(c, error, "p1")
        \/ RaceExact(c)
        \/ RaceSimilar(c)
        \/ RaceUpdate(c)
        \/ RaceCreate(c)
        \/ RaceOccurrence(c)

SpecRace == InitAt(MaxNow) /\ [][NextRace]_vars

\* C23: no two groups of a project share a fingerprint, and a call that lost
\* the race for a new fingerprint (its lookups saw no group of it, its INSERT
\* failed on the constraint) succeeds when it is sent again, by the update
\* path: the group is counted up and the occurrence appended.
C23_RetryOfTheLoserMerges ==
    /\ \A g \in errors : \A h \in errors :
          (g.project_id = h.project_id /\ g.fingerprint = h.fingerprint) => g = h
    /\ \A c \in Callers :
          LET call == racing[c]
          IN  (call.at \in {"ok", "failed"} /\ call.lost /\ call.tries > 1)
              => /\ call.at = "ok"
                 /\ call.path \in {"exact", "similar"}
                 /\ \E o \in occurrences : o.error_id = call.id

(***************************************************************************)
(* The rollup jobs (jobs/rollup.rs) over the table requests.  In this part *)
(* the clock is read as a calendar: a tick is one part of an hour, and a   *)
(* timestamp text is <<day, 'T', hour, part, suffix>>, the numbers         *)
(* standing for the fixed-width "YYYY-MM-DD", "HH" and ":MM:SS".           *)
(***************************************************************************)
DayOf(t) == t \div (PartsPerHour * HoursPerDay)
HourOf(t) == (t \div PartsPerHour) % HoursPerDay
PartOf(t) == t % PartsPerHour
AnHour == PartsPerHour
ADay == PartsPerHour * HoursPerDay

\* Utc::now().to_rfc3339() in the calendar's terms: "...T..:..:..+00:00".
StampText(t) == <<DayOf(t), Code.tee, HourOf(t), PartOf(t), Code.plus>>

\* format("%Y-%m-%dT%H:00:00Z")
HourStamp(t) == <<DayOf(t), Code.tee, HourOf(t), 0, Code.zed>>

\* SQLite's datetime(?1, '+1 hour') of such a text: "YYYY-MM-DD HH:MM:SS",
\* a space where the argument has 'T', and no suffix.
DatetimePlusHour(text) ==
    LET hour == text[1] * HoursPerDay + text[3] + 1
    IN  <<hour \div HoursPerDay, Code.space, hour % HoursPerDay, text[4]>>

\* format("%Y-%m-%d"), and SQLite's date(?1, '+1 day').
DayStamp(t) == <<DayOf(t)>>
DatePlusDay(text) == <<text[1] + 1>>

\* A request of a batch, and the row insert_batch writes for it at time t.
IncomingRequest(path, method, total_ms, db_ms, db_count, timestamp) ==
    [path |-> path, method |-> method, total_ms |-> total_ms, db_ms |-> db_ms,
     db_count |-> db_count, timestamp |-> timestamp]

RequestRow(id, req, t) ==
    [id |-> id, path |-> req.path, method |-> req.method, total_ms |-> req.total_ms,
     db_ms |-> req.db_ms, db_count |-> req.db_count,
     happened_at |-> IF req.timestamp = None THEN StampText(t) ELSE req.timestamp[1]]

RollupOnly ==
    UNCHANGED <<errors, occurrences, spans, deploys, gone, latest, last, ebatch, inflight,
                projects, api_keys, env, input, jobs, pool, racing>>

\* POST /ingest/requests with one request: insert_batch.
insert_batch(req) ==
    /\ Cardinality(requests) < MaxRequests
    /\ requests' = requests \cup {RequestRow(NewRowId(requests), req, now)}
    /\ UNCHANGED <<now, rollups_hourly, rollups_daily, answer>>
    /\ RollupOnly

\* The routes of the model in the order of GROUP BY path, method.
Routes == <<<<"/", "GET">>, <<"/a", "GET">>>>
RouteOf(row) == <<row.path, row.method>>

RECURSIVE SumOf(_, _)
SumOf(rows, column) ==
    IF rows = {} THEN 0
    ELSE LET r == CHOOSE r \in rows : TRUE
         IN  r[column] + SumOf(rows \ {r}, column)

\* SELECT path, method, COUNT(*), SUM(total_ms), SUM(db_ms), SUM(db_count)
\* FROM requests WHERE happened_at >= ?1 AND happened_at < datetime(?1, '+1 hour')
\* GROUP BY path, method: the rollups of the hour, in the order of the groups.
HourlyRollups(table, prev_hour) ==
    LET InHour(r) == /\ ~TextLess(r.happened_at, prev_hour)
                     /\ TextLess(r.happened_at, DatetimePlusHour(prev_hour))
        Group(k) == {r \in table : InHour(r) /\ RouteOf(r) = Routes[k]}
        Made(k) == [id |-> 0, hour |-> prev_hour, path |-> Routes[k][1],
                    method |-> Routes[k][2], request_count |-> Cardinality(Group(k)),
                    error_count |-> 0, total_ms_sum |-> SumOf(Group(k), "total_ms"),
                    total_ms_p50 |-> None, db_ms_sum |-> SumOf(Group(k), "db_ms"),
                    db_count_sum |-> SumOf(Group(k), "db_count")]
    IN  SelectSeq([k \in 1..Len(Routes) |-> Made(k)], LAMBDA m : m.request_count > 0)

\* A variant of the upsert that adds the row and replaces none.
AppendHourly(table, rollup) == table \cup {[rollup EXCEPT !.id = NewRowId(table)]}

\* INSERT OR REPLACE INTO rollups_hourly, under UNIQUE(hour, path, method):
\* the row in conflict goes, the new row gets a new id.
UpsertHourly(table, rollup) ==
    {r \in table : <<r.hour, r.path, r.method>>
                     # <<rollup.hour, rollup.path, rollup.method>>}
    \cup {[rollup EXCEPT !.id = NewRowId(table)]}

RECURSIVE WriteHourly(_, _, _, _)
WriteHourly(table, rollups, k, failing) ==
    IF k > Len(rollups) THEN [table |-> table, ok |-> TRUE]
    ELSE IF k = failing THEN [table |-> table, ok |-> FALSE]
    ELSE WriteHourly(UpsertHourly(table, rollups[k]), rollups, k + 1, failing)

\* hourly(pool) at time t: the table it leaves and Ok/Err.  fault 0: no
\* statement fails; -1: pool.get() or the SELECT fails; k > 0: insert_hourly
\* of the k-th rollup fails (the `?` in the loop).
hourly_run(source, table, t, fault) ==
    IF fault < 0 THEN [table |-> table, ok |-> FALSE]
    ELSE WriteHourly(table, HourlyRollups(source, HourStamp(t - AnHour)), 1, fault)

\* SELECT path, method, SUM(request_count), SUM(error_count), AVG(total_ms_p50),
\* ..., SUM(db_ms_sum) / SUM(request_count), SUM(db_count_sum) / SUM(request_count)
\* FROM rollups_hourly WHERE hour >= ?1 AND hour < date(?1, '+1 day')
\* GROUP BY path, method.  A quotient of a REAL is kept as the pair it is
\* the quotient of; the quotient of two INTEGERs is SQLite's integer one.
DailyRollups(table, prev_day) ==
    LET InDay(r) == /\ ~TextLess(r.hour, prev_day)
                    /\ TextLess(r.hour, DatePlusDay(prev_day))
        Group(k) == {r \in table : InDay(r) /\ RouteOf(r) = Routes[k]}
        Made(k) == [id |-> 0, date |-> prev_day, path |-> Routes[k][1],
                    method |-> Routes[k][2],
                    request_count |-> SumOf(Group(k), "request_count"),
                    error_count |-> SumOf(Group(k), "error_count"),
                    total_ms_p50 |-> None,
                    avg_db_ms |-> <<SumOf(Group(k), "db_ms_sum"),
                                    SumOf(Group(k), "request_count")>>,
                    avg_db_count |-> IF Group(k) = {} THEN 0
                                     ELSE SumOf(Group(k), "db_count_sum")
                                            \div SumOf(Group(k), "request_count")]
    IN  SelectSeq([k \in 1..Len(Routes) |-> Made(k)], LAMBDA m : m.request_count > 0)

\* INSERT OR REPLACE INTO rollups_daily, under UNIQUE(date, path, method).
UpsertDaily(table, rollup) ==
    {r \in table : <<r.date, r.path, r.method>>
                     # <<rollup.date, rollup.path, rollup.method>>}
    \cup {[rollup EXCEPT !.id = NewRowId(table)]}

RECURSIVE WriteDaily(_, _, _, _)
WriteDaily(table, rollups, k, failing) ==
    IF k > Len(rollups) THEN [table |-> table, ok |-> TRUE]
    ELSE IF k = failing THEN [table |-> table, ok |-> FALSE]
    ELSE WriteDaily(UpsertDaily(table, rollups[k]), rollups, k + 1, failing)

\* daily(pool) at time t, its faults as those of hourly.
daily_run(source, table, t, fault) ==
    IF fault < 0 THEN [table |-> table, ok |-> FALSE]
    ELSE WriteDaily(table, DailyRollups(source, DayStamp(t - ADay)), 1, fault)

\* What the rollup tasks have done: when each ran last, how the latest
\* hourly run ended and for which hour; as history `missed`, the hours whose
\* run failed with the routes it had to write, and `behind`, those of them
\* after whose failure a run has succeeded.
NoRollup ==
    [op |-> "rollup", hourly_at |-> -1, daily_at |-> -1, ok |-> TRUE, hour |-> None,
     missed |-> {}, behind |-> {}]
Rollup(a) == IF a.op = "rollup" THEN a ELSE NoRollup

\* A tick of the hourly task: an hour after the one before, or the first
\* tick of a process that has been started again.  Err is logged.
hourly(fault) ==
    LET prev_hour == HourStamp(now - AnHour)
        due == HourlyRollups(requests, prev_hour)
        out == hourly_run(requests, rollups_hourly, now, fault)
        done == Rollup(answer)
    IN  /\ done.hourly_at # now
        /\ fault <= Len(due)
        /\ rollups_hourly' = out.table
        /\ answer' =
             [done EXCEPT
                !.hourly_at = now, !.ok = out.ok, !.hour = <<prev_hour>>,
                !.missed = IF out.ok \/ due = <<>> THEN @
                           ELSE @ \cup {[hour |-> prev_hour,
                                         routes |-> {RouteOf(due[k]) : k \in 1..Len(due)}]},
                !.behind = IF out.ok THEN done.missed ELSE @]
        /\ UNCHANGED <<now, requests, rollups_daily>>
        /\ RollupOnly

\* A tick of the daily task.
daily(fault) ==
    LET out == daily_run(rollups_hourly, rollups_daily, now, fault)
        done == Rollup(answer)
    IN  /\ done.daily_at # now
        /\ fault <= Len(DailyRollups(rollups_hourly, DayStamp(now - ADay)))
        /\ rollups_daily' = out.table
        /\ answer' = [done EXCEPT !.daily_at = now]
        /\ UNCHANGED <<now, requests, rollups_hourly>>
        /\ RollupOnly

\* Requests of two routes: one says when it happened (in the last hour of
\* the first day), the other is given the time of its arrival.
RequestInputs ==
    {IncomingRequest("/", "GET", 3, 1, 2, <<StampText(ADay - 1)>>),
     IncomingRequest("/a", "GET", 5, 2, 1, None)}

RollupFaults == {-1, 0, 1, 2}

NextRollups ==
    \/ Tick
    \/ \E req \in RequestInputs : insert_batch(req)
    \/ \E fault \in RollupFaults : hourly(fault)
    \/ \E fault \in RollupFaults : daily(fault)

SpecRollups == InitAt(0) /\ [][NextRollups]_vars

\* The routes for which a table holds a rollup of the hour.
RoutesOfHour(table, hour) == {RouteOf(r) : r \in {r \in table : r.hour = hour}}

\* C24: an hour whose rollup failed is missed only until the next tick that
\* succeeds: once a run has succeeded after the failure, the rollup rows the
\* failed run had to write are in the table.
C24_MissedHourIsCaughtUp ==
    \A m \in Rollup(answer).behind : m.routes \subseteq RoutesOfHour(rollups_hourly, m.hour)

\* A rollup row without its id.
Aggregates(row) == [c \in DOMAIN row \ {"id"} |-> row[c]]

\* C25: running the hourly rollup, or the daily one, once more for the same
\* period over the same source rows leaves the table as the first run left
\* it: one row per (hour, path, method), respectively (date, path, method),
\* with the same aggregate values.
C25_SecondRunChangesNothing ==
    LET first == hourly_run(requests, rollups_hourly, now, 0).table
        second == hourly_run(requests, first, now, 0).table
        day == daily_run(rollups_hourly, rollups_daily, now, 0).table
        again == daily_run(rollups_hourly, day, now, 0).table
    IN  /\ {Aggregates(r) : r \in second} = {Aggregates(r) : r \in first}
        /\ \A r \in second : \A q \in second :
              <<r.hour, r.path, r.method>> = <<q.hour, q.path, q.method>> => r = q
        /\ {Aggregates(r) : r \in again} = {Aggregates(r) : r \in day}
        /\ \A r \in again : \A q \in again :
              <<r.date, r.path, r.method>> = <<q.date, q.path, q.method>> => r = q
        /\ \A r \in rollups_hourly : \A q \in rollups_hourly :
              <<r.hour, r.path, r.method>> = <<q.hour, q.path, q.method>> => r = q
        /\ \A r \in rollups_daily : \A q \in rollups_daily :
              <<r.date, r.path, r.method>> = <<q.date, q.path, q.method>> => r = q

\* The hourly job has run twice for one hour and the daily job twice for one
\* day, each over rows to aggregate: the row of each was written, then replaced.
C25_Witness ==
    /\ \E r \in rollups_hourly :
          /\ r.id > 1
          /\ r.request_count > 0
          /\ Cardinality(rollups_hourly) = 1
    /\ \E r \in rollups_daily :
          /\ r.id > 1
          /\ r.request_count > 0
          /\ Cardinality(rollups_daily) = 1

(***************************************************************************)
(* What a retention run removes, and what it leaves alone.  Clients date   *)
(* their errors and deploys themselves; some write the time of their own   *)
(* zone, as RFC 3339 allows ("...T10:30:00-02:00").                        *)
(***************************************************************************)
\* The text of the local time `sec` in a zone `behind` hours behind UTC,
\* <<sec, '-', behind>>, and the instant a timestamp text denotes, zone
\* included.
ZonedText(sec, behind) == <<sec, Code.minus, behind>>

InstantOfZoned(text) ==
    IF Len(text) = 3 /\ text[2] = Code.minus
    THEN text[1] * MsPerSec * SubPerMs + Hours(text[3])
    ELSE InstantOf(text)

\* An error and a deploy dated by a client one hour behind UTC.
ZonedError ==
    IncomingError("E", MessageXY, <<LibFrame, AppFrameA>>, "f1", None,
                  <<ZonedText(SecOf(MaxNow) - 1, 1)>>)

CleanupInputs == {e \in ErrorInputs : e.timestamp # None} \cup {ZonedError}

NextCleanup ==
    \/ Tick
    \/ IngestSpans({"w1"}, RetentionBatches)
    \/ IngestErrors(CleanupInputs, {"p1"}, {"none"})
    \/ \E timestamp \in {LongAgo, <<ZonedText(SecOf(MaxNow) - 1, 1)>>} :
          ingest_deploys(timestamp, "p1", "none")
    \/ HourlyRollup
    \/ ensure_default_project(OldDraw, "none")
    \/ Retention({"none", "deploys"})

SpecCleanup == InitAt(MaxNow - 1) /\ [][NextCleanup]_vars

\* The rows of a table that a step removes or changes.
Removed(table, after) == table \ after

\* C26: a retention run leaves every error group and every project as it
\* was, and what it removes from the spans, the error occurrences, the
\* hourly rollups and the deploys is older than the horizon of its table.
C26_CleanupRemovesOnlyTheOld ==
    [][(\E fault \in CleanupFaults, sunday \in BOOLEAN : RetentionTick(fault, sunday)) =>
          /\ errors' = errors
          /\ projects' = projects
          /\ spans' \subseteq spans
          /\ occurrences' \subseteq occurrences
          /\ rollups_hourly' \subseteq rollups_hourly
          /\ deploys' \subseteq deploys
          /\ \A r \in Removed(spans, spans') :
                InstantOfZoned(r.happened_at) < now - Days(retention_days_spans)
          /\ \A r \in Removed(occurrences, occurrences') :
                InstantOfZoned(r.happened_at) < now - Days(retention_days_errors)
          /\ \A r \in Removed(rollups_hourly, rollups_hourly') :
                InstantOfZoned(r.hour) < now - Days(retention_days_hourly_rollups)
          /\ \A r \in Removed(deploys, deploys') :
                InstantOfZoned(r.deployed_at) < now - Days(DeployDays)]_vars

(***************************************************************************)
(* The depth computation on traces whose parent links form a cycle.        *)
(***************************************************************************)
\* C27: the depth computation of get_trace ends for every set of stored
\* spans of a trace, a set whose parent links form a cycle included: the
\* read returns the trace with a depth for each span, a span met again
\* while it is being resolved counting as depth 0.
C27_DepthComputationEnds ==
    LET rows == {r \in spans : r.trace_id = "t1"}
        read == get_trace(spans, "t1")
    IN  /\ rows # {} => read.result = "trace"
        /\ answer.op = "get_trace" => answer.result # "overflow"

(***************************************************************************)
(* The routes page: routes_summary over the spans table.  A row of the     *)
(* table is kept with the columns the two queries read; duration_ms is in  *)
(* parts of a millisecond (PerMs parts to one), happened_at and `since`    *)
(* are instants, which both queries compare in the same way.  The calls    *)
(* modelled pass no search term, the default sort and a limit no smaller   *)
(* than the number of groups; name is NOT NULL, so COALESCE(name, ...) is  *)
(* the name.                                                               *)
(***************************************************************************)
RouteSpan(parent_span_id, name, http_method, root_span_type, duration_ms, project_id, happened_at) ==
    [parent_span_id |-> parent_span_id, name |-> name, http_method |-> http_method,
     root_span_type |-> root_span_type, duration_ms |-> duration_ms,
     project_id |-> project_id, happened_at |-> happened_at]

\* COALESCE(http_method, 'GET')
MethodOf(row) == IF row.http_method = None THEN "GET" ELSE row.http_method[1]

\* (?1 IS NULL OR project_id = ?1) AND happened_at >= ?2
InWindow(row, project_id, since) ==
    /\ project_id = None \/ row.project_id = project_id[1]
    /\ row.happened_at >= since

\* The rows the grouping query of routes_summary reads.
RootWebSpans(table, project_id, since) ==
    SelectSeq(table, LAMBDA r : /\ r.parent_span_id = None
                                /\ r.root_span_type = "web"
                                /\ InWindow(r, project_id, since))

\* The durations of the rows of a sequence, in its order.
DurationsOf(rows) == [i \in 1..Len(rows) |-> rows[i].duration_ms]

\* The rows of one (path, method) group of the grouping query.
RouteGroup(table, project_id, since, path, method) ==
    SelectSeq(RootWebSpans(table, project_id, since),
              LAMBDA r : r.name = path /\ MethodOf(r) = method)

\* calculate_route_percentiles: the parentless spans of the path in the
\* window, whatever their method and root_span_type.
RoutePercentileRows(table, project_id, path, since) ==
    SelectSeq(table, LAMBDA r : /\ r.parent_span_id = None
                                /\ r.name = path
                                /\ InWindow(r, project_id, since))

PercentilesOf(rows) ==
    LET values == Ascending(DurationsOf(rows))
        n == Len(values)
    IN  IF n = 0 THEN [p95 |-> 0, p99 |-> 0]
        ELSE [p95 |-> RoundDiv(values[PercentileIndex(n, 95) + 1], PerMs),
              p99 |-> RoundDiv(values[PercentileIndex(n, 99) + 1], PerMs)]

calculate_route_percentiles(table, project_id, path, since) ==
    PercentilesOf(RoutePercentileRows(table, project_id, path, since))

routes_summary(table, project_id, since) ==
    LET web == RootWebSpans(table, project_id, since)
        keys == {<<web[i].name, MethodOf(web[i])>> : i \in 1..Len(web)}
    IN  {LET values == Ascending(DurationsOf(RouteGroup(table, project_id, since, k[1], k[2])))
             n == Len(values)
             p == calculate_route_percentiles(table, project_id, k[1], since)
         IN  [path |-> k[1], method |-> k[2], request_count |-> n,
              avg_ms |-> RoundDiv(Sum(values), n * PerMs),
              p95_ms |-> p.p95, p99_ms |-> p.p99,
              max_ms |-> RoundDiv(values[n], PerMs),
              min_ms |-> RoundDiv(values[1], PerMs)] : k \in keys}

RoutesSummary ==
    /\ answer' = [op |-> "routes_summary",
                  rows |-> routes_summary(input[1], input[2], input[3])]
    /\ UNCHANGED <<store, jobs, projects, api_keys, env, input, aside>>

\* Spans as ingestion stores them: requests to one path by three methods
\* and of three durations, a job and a child span of the same name, a
\* request before the window and one of another project.
RouteDurations == {1, 3, 6}
RouteSpans ==
    {RouteSpan(None, "/a", m, "web", d, 1, 1) :
        m \in {None, <<"GET">>, <<"POST">>}, d \in RouteDurations}
    \cup {RouteSpan(None, "/a", None, "job", 6, 1, 1),
          RouteSpan(<<"ab">>, "/a", <<"GET">>, "web", 6, 1, 1),
          RouteSpan(None, "/a", <<"GET">>, "web", 6, 1, 0),
          RouteSpan(None, "/a", <<"GET">>, "web", 6, 2, 1)}

RECURSIVE SpanTables(_)
SpanTables(n) ==
    IF n = 0 THEN {<<>>}
    ELSE SpanTables(n - 1) \cup {Append(t, r) : t \in {u \in SpanTables(n - 1) : Len(u) = n - 1},
                                            r \in RouteSpans}

SpecRoutes ==
    InitOn({<<table, <<1>>, 1>> : table \in SpanTables(MaxRouteSpans)}) /\ [][RoutesSummary]_vars

\* C28: every row of routes_summary has its percentiles computed over
\* exactly the durations of the root web spans of its (path, method) group
\* in the window, so min_ms <= p95_ms <= p99_ms <= max_ms in every row.
C28_PercentilesAreOfTheGroup ==
    answer.op = "routes_summary" =>
        \A row \in answer.rows :
            LET p == PercentilesOf(RouteGroup(input[1], input[2], input[3],
                                              row.path, row.method))
            IN  /\ row.p95_ms = p.p95
                /\ row.p99_ms = p.p99
                /\ row.min_ms <= row.p95_ms
                /\ row.p95_ms <= row.p99_ms
                /\ row.p99_ms <= row.max_ms

(***************************************************************************)
(* What a call of insert leaves behind when it returns an error.           *)
(***************************************************************************)
\* C29: a call of insert that returns an error leaves the store as it was:
\* no group created, no occurrence_count or last_seen_at changed and no
\* occurrence row added, whichever statement of the call failed.
C29_FailedInsertChangesNothing ==
    \A error \in ErrorInputs, project_id \in Projects, fault \in Faults :
        \A out \in InsertOutcomes(Db(errors, occurrences), error, project_id, now, fault) :
            ~out.ok => out.db = Db(errors, occurrences)

(***************************************************************************)
(* The status of a group (web/errors.rs, update_status) and the inserts    *)
(* that merge into it.                                                     *)
(***************************************************************************)
valid_statuses == {"open", "resolved", "ignored"}

\* UPDATE errors SET status = ?1 WHERE id = ?2
SetStatus(table, id, status) ==
    {IF g.id = id THEN [g EXCEPT !.status = status] ELSE g : g \in table}

\* The occurrence_count of the group id, 0 when there is no such group.
CountOf(table, id) ==
    IF \E g \in table : g.id = id
    THEN (CHOOSE g \in table : g.id = id).occurrence_count
    ELSE 0

\* POST /errors/:id/status: the status is written when it is a valid one;
\* the answer is a redirect either way.  `seen`, history: the group's
\* occurrence_count when its status was set.
update_status(id, status) ==
    /\ errors' = IF status \in valid_statuses THEN SetStatus(errors, id, status)
                 ELSE errors
    /\ answer' = [op |-> "update_status", id |-> id, status |-> status,
                  seen |-> CountOf(errors, id)]
    /\ UNCHANGED <<now, occurrences, spans, rollups_hourly, deploys, gone, latest, last,
                   ebatch, inflight, projects, api_keys, env, input, jobs, aside>>

\* The statuses the form is sent with here: a valid one and one that is not.
StatusInputs == {"resolved", "closed"}

UpdateStatus == \E id \in 1..MaxGroups, status \in StatusInputs : update_status(id, status)

NextMerge == IngestErrors(ErrorInputs, {"p1"}, {"none", "occurrence"}) \/ UpdateStatus

SpecMerge == InitAt(MaxNow) /\ [][NextMerge]_vars

\* C30: an insert that merges into an existing group, found by its exact
\* fingerprint or by similarity, changes that group's occurrence_count and
\* last_seen_at and nothing else in the errors table: the group keeps its
\* status, fingerprint, exception class, message, first_seen_at and project,
\* every other group is as it was, and no group is added or removed.
C30_MergeChangesCountAndLastSeenOnly ==
    \A error \in ErrorInputs, project_id \in Projects, fault \in Faults :
        \A out \in InsertOutcomes(Db(errors, occurrences), error, project_id, now, fault) :
            (out.path \in {"exact", "similar"} /\ out.written # 0) =>
                /\ Cardinality(out.db.errors) = Cardinality(errors)
                /\ \A g \in errors : \E h \in out.db.errors :
                      /\ h.id = g.id
                      /\ h.status = g.status
                      /\ h.fingerprint = g.fingerprint
                      /\ h.exception_class = g.exception_class
                      /\ h.message = g.message
                      /\ h.first_seen_at = g.first_seen_at
                      /\ h.project_id = g.project_id
                      /\ IF g.id = out.written
                         THEN /\ h.occurrence_count = g.occurrence_count + 1
                              /\ h.last_seen_at = InsertTimestamp(error, now)
                         ELSE h = g

\* A group that was set to resolved and has been merged into since: it is
\* still resolved, it counts more occurrences than when its status was set,
\* and its last_seen_at has moved away from its first_seen_at.
C30_Witness ==
    /\ answer.op = "update_status"
    /\ answer.status = "resolved"
    /\ \E g \in errors :
          /\ g.id = answer.id
          /\ g.status = "resolved"
          /\ g.occurrence_count > answer.seen
          /\ answer.seen > 0
          /\ g.last_seen_at # g.first_seen_at
          /\ \E h \in errors : h.id # g.id /\ h.status = "open"
====
